---- MODULE Spec2Model ----
(***************************************************************************)
(* Negotiation engine of SkylinkJS: the per-peer offer/answer state        *)
(* machine (_doOffer, _doAnswer, _setLocalAndSendMessage) of two endpoints *)
(* A and B that negotiate with each other over an ordered signaling        *)
(* channel.  Every variable is indexed by the endpoint that owns it; the   *)
(* peer of an endpoint is the other endpoint.                              *)
(***************************************************************************)
EXTENDS Integers, Sequences, FiniteSets, TLC

(* ---------------------------------------------------------------------- *)
(* Bounds                                                                  *)
(* ---------------------------------------------------------------------- *)
\* invocations of _doOffer and _doAnswer per endpoint
MaxCalls == 2

(* ---------------------------------------------------------------------- *)
(* Program constants                                                       *)
(* ---------------------------------------------------------------------- *)
Endpoints == {"A", "B"}

Other(e) == IF e = "A" THEN "B" ELSE "A"

\* the endpoints whose environment removes the peer during the run
Removable == {"A"}

\* PEER_CONNECTION_STATE
STABLE == "stable"
HAVE_LOCAL_OFFER == "have-local-offer"
HAVE_REMOTE_OFFER == "have-remote-offer"
CLOSED == "closed"

\* HANDSHAKE_PROGRESS
OFFER == "offer"
ANSWER == "answer"
ERROR == "error"

\* self._peerPriorityWeight of each endpoint (A is the higher-weight peer)
peerPriorityWeight(e) == IF e = "A" THEN 2 ELSE 1

\* a message without a weight key
NoWeight == 0

(* ---------------------------------------------------------------------- *)
(* Session descriptions: {type, sdp}; the sdp is a sequence of lines       *)
(* ---------------------------------------------------------------------- *)
BundleLine == "a=group:BUNDLE audio"
MediaLine == "m=audio"

\* the sdp bodies the transport's createOffer/createAnswer can produce;
\* the empty body is the "description is undefined" case
CreatedBodies == { <<>>, <<BundleLine, MediaLine>> }

NoDesc == [type |-> "none", sdp |-> <<>>]

Desc(t, body) == [type |-> t, sdp |-> body]

RECURSIVE RemoveLine(_, _)
\* sdp.replace(/a=group:BUNDLE.*\r\n/gi, '')
RemoveLine(sdp, line) ==
  IF sdp = <<>> THEN <<>>
  ELSE IF Head(sdp) = line THEN RemoveLine(Tail(sdp), line)
       ELSE <<Head(sdp)>> \o RemoveLine(Tail(sdp), line)

VARIABLES
  enableIceTrickle,     \* self._initOptions.enableIceTrickle
  disableBundle,        \* self._peerConnectionConfig.disableBundle
  peerConnections,      \* e -> TRUE iff self._peerConnections[peer] exists
  signalingState,       \* e -> pc.signalingState
  processingLocalSDP,   \* e -> pc.processingLocalSDP
  gathered,             \* e -> pc.gathered
  bufferedLocalOffer,   \* e -> self._bufferedLocalOffer[peer]
  sdpConstraints,       \* e -> self._peerConnStatus[peer].sdpConstraints
  pending,              \* e -> transport calls whose callback has not fired
  localDescription,     \* e -> pc.localDescription, as the transport set it
  channel,              \* e -> signaling messages in flight towards e
  haltedSend,           \* e -> description whose sending is halted for gathering
  triggered,            \* handshakeProgress triggers of the handler that ran last
  callsLeft,            \* e -> remaining _doOffer and _doAnswer invocations
  last                  \* the handler that ran last and how it ended

config == <<enableIceTrickle, disableBundle>>
pcVars == <<peerConnections, signalingState, processingLocalSDP, gathered,
            bufferedLocalOffer, sdpConstraints>>
ioVars == <<pending, localDescription, channel, haltedSend>>
budget == <<callsLeft>>
vars == <<enableIceTrickle, disableBundle, peerConnections, signalingState,
          processingLocalSDP, gathered, bufferedLocalOffer, sdpConstraints,
          pending, localDescription, channel, haltedSend, triggered,
          callsLeft, last>>

\* rewrites: the rewrites of the local description the operation called
Ran(fn, e, outcome) ==
  [fn |-> fn, ep |-> e, outcome |-> outcome, rewrites |-> <<>>]

Init ==
  /\ enableIceTrickle \in BOOLEAN
  /\ disableBundle \in BOOLEAN
  /\ peerConnections = [e \in Endpoints |-> TRUE]
  /\ signalingState = [e \in Endpoints |-> STABLE]
  /\ processingLocalSDP = [e \in Endpoints |-> FALSE]
  /\ gathered = [e \in Endpoints |-> FALSE]
  /\ bufferedLocalOffer = [e \in Endpoints |-> NoDesc]
  /\ sdpConstraints = [e \in Endpoints |-> "none"]
  /\ pending = [e \in Endpoints |-> <<>>]
  /\ localDescription = [e \in Endpoints |-> NoDesc]
  /\ channel = [e \in Endpoints |-> <<>>]
  /\ haltedSend = [e \in Endpoints |-> NoDesc]
  /\ triggered = <<>>
  /\ callsLeft = [e \in Endpoints |-> MaxCalls]
  /\ last = Ran("init", "A", "none")

\* pc.createOffer / pc.createAnswer / pc.setLocalDescription is called with
\* its two callbacks: the call is outstanding until one of them fires
CallTransport(e, pend, op, sd) ==
  pending' = [pending EXCEPT ![e] = Append(pend, [op |-> op, sd |-> sd])]

RemoveAt(s, i) == SubSeq(s, 1, i - 1) \o SubSeq(s, i + 1, Len(s))

\* self._trigger('handshakeProgress', kind, targetMid)
Trigger(e, kind) == [kind |-> kind, ep |-> e]

(* ---------------------------------------------------------------------- *)
(* _doOffer                                                                *)
(* ---------------------------------------------------------------------- *)
\* the two early returns of _doOffer ("none": no early return)
DoOfferDropNoStateCheck(e) ==
  IF ~peerConnections[e] THEN "dropped_no_connection" ELSE "none"

DoOfferDrop(e) ==
  IF ~peerConnections[e] THEN "dropped_no_connection"
  ELSE IF signalingState[e] # STABLE THEN "dropped_state"
  ELSE "none"

\* (_addLocalMediaStreams, _createDataChannel and pc.endOfCandidates touch
\* state that none of the three operations reads; _peerConnStatus[peer]
\* exists as long as the peer is known)
DoOffer(e) ==
  /\ callsLeft[e] > 0
  /\ callsLeft' = [callsLeft EXCEPT ![e] = @ - 1]
  /\ IF DoOfferDrop(e) # "none"
     THEN /\ last' = Ran("doOffer", e, DoOfferDrop(e))
          /\ UNCHANGED <<sdpConstraints, pending>>
     ELSE /\ sdpConstraints' = [sdpConstraints EXCEPT ![e] = "offerConstraints"]
          /\ CallTransport(e, pending[e], "createOffer", NoDesc)
          /\ last' = Ran("doOffer", e, "createOffer")
  /\ triggered' = <<>>
  /\ UNCHANGED <<config, peerConnections, signalingState, processingLocalSDP,
                 gathered, bufferedLocalOffer, localDescription, channel,
                 haltedSend>>

(* ---------------------------------------------------------------------- *)
(* _doAnswer                                                               *)
(* ---------------------------------------------------------------------- *)
\* the two early returns of _doAnswer ("none": no early return)
DoAnswerDropUnlessStable(e) ==
  IF ~peerConnections[e] THEN "dropped_no_connection"
  ELSE IF signalingState[e] = STABLE THEN "dropped_state"
  ELSE "none"

DoAnswerDrop(e) ==
  IF ~peerConnections[e] THEN "dropped_no_connection"
  ELSE IF signalingState[e] # HAVE_REMOTE_OFFER THEN "dropped_state"
  ELSE "none"

DoAnswer(e) ==
  /\ callsLeft[e] > 0
  /\ callsLeft' = [callsLeft EXCEPT ![e] = @ - 1]
  /\ IF DoAnswerDrop(e) # "none"
     THEN /\ last' = Ran("doAnswer", e, DoAnswerDrop(e))
          /\ UNCHANGED <<sdpConstraints, pending>>
     ELSE /\ sdpConstraints' = [sdpConstraints EXCEPT ![e] = "answerConstraints"]
          /\ CallTransport(e, pending[e], "createAnswer", NoDesc)
          /\ last' = Ran("doAnswer", e, "createAnswer")
  /\ triggered' = <<>>
  /\ UNCHANGED <<config, peerConnections, signalingState, processingLocalSDP,
                 gathered, bufferedLocalOffer, localDescription, channel,
                 haltedSend>>

(* ---------------------------------------------------------------------- *)
(* _setLocalAndSendMessage                                                 *)
(* ---------------------------------------------------------------------- *)
\* the replace of /a=group:BUNDLE.*\r\n/gi
BundleStrip == "replace a=group:BUNDLE"

\* The rewrite chain of the local description, in the order of the calls;
\* the replace of the BUNDLE group is made when disableBundle is set.
RewritesRembBeforeAptRtx ==
  <<"_removeSDPFirefoxH264Pref", "_setSDPCodecParams",
    "_removeSDPREMBPackets", "_removeSDPCodecs",
    "_handleSDPConnectionSettings", "_removeSDPUnknownAptRtx",
    "_setSCTPport">>
  \o (IF disableBundle THEN <<BundleStrip>> ELSE <<>>)

Rewrites ==
  <<"_removeSDPFirefoxH264Pref", "_setSDPCodecParams",
    "_removeSDPUnknownAptRtx", "_removeSDPCodecs",
    "_handleSDPConnectionSettings", "_removeSDPREMBPackets",
    "_setSCTPport">>
  \o (IF disableBundle THEN <<BundleStrip>> ELSE <<>>)

\* One rewrite of the chain.  The bodies of the stage functions
\* (_removeSDPFirefoxH264Pref ... _setSCTPport) rewrite lines that
\* CreatedBodies never contains; the BUNDLE replace is the stage that acts.
Rewrite(name, sd) ==
  IF name = BundleStrip
  THEN Desc(sd.type, RemoveLine(sd.sdp, BundleLine))
  ELSE sd

\* sessionDescription.sdp = <rewrite>(targetMid, sessionDescription), one
\* after the other
RECURSIVE RewriteChain(_, _)
RewriteChain(names, sd) ==
  IF names = <<>> THEN sd
  ELSE RewriteChain(Tail(names), Rewrite(Head(names), sd))

LocalPipeline(sd) == RewriteChain(Rewrites, sd)

\* the record of a description that passed the guards
Accepted(caller, e) ==
  [Ran(caller, e, "accepted") EXCEPT !.rewrites = Rewrites]

\* The chain of guards before pc.processingLocalSDP = true.  "TypeError":
\* the branch evaluates sessionDescription.type while the hoisted var
\* sessionDescription (assigned only after the guards) is still undefined.
RejectWithoutMutex(e, sd) ==
  IF sd.sdp = <<>> THEN "dropped_undefined"
  ELSE IF ~peerConnections[e] THEN "TypeError_no_connection"
  ELSE IF sd.type = OFFER /\ signalingState[e] # STABLE THEN "dropped_offer"
  ELSE IF sd.type = ANSWER /\ signalingState[e] # HAVE_REMOTE_OFFER
    THEN "dropped_answer"
  ELSE "none"

RejectNoOfferStateCheck(e, sd) ==
  IF sd.sdp = <<>> THEN "dropped_undefined"
  ELSE IF ~peerConnections[e] THEN "TypeError_no_connection"
  ELSE IF sd.type = ANSWER /\ signalingState[e] # HAVE_REMOTE_OFFER
    THEN "dropped_answer"
  ELSE IF processingLocalSDP[e] THEN "TypeError_processing"
  ELSE "none"

Reject(e, sd) ==
  IF sd.sdp = <<>> THEN "dropped_undefined"
  ELSE IF ~peerConnections[e] THEN "TypeError_no_connection"
  ELSE IF sd.type = OFFER /\ signalingState[e] # STABLE THEN "dropped_offer"
  ELSE IF sd.type = ANSWER /\ signalingState[e] # HAVE_REMOTE_OFFER
    THEN "dropped_answer"
  ELSE IF processingLocalSDP[e] THEN "TypeError_processing"
  ELSE "none"

\* if (!self._initOptions.enableIceTrickle && !pc.gathered) return;
HaltNever(e) == FALSE

Halt(e) == ~enableIceTrickle /\ ~gathered[e]

\* messageToSend.weight is set for offers only
MessageWeightMissing(e, sd) == NoWeight

MessageWeight(e, sd) ==
  IF sd.type = OFFER THEN peerPriorityWeight(e) ELSE NoWeight

Message(e, sd) ==
  [type |-> sd.type, sdp |-> sd.sdp, weight |-> MessageWeight(e, sd)]

\* self._sendChannelMessage(messageToSend)
SendChannelMessage(e, msg) ==
  channel' = [channel EXCEPT ![Other(e)] = Append(@, msg)]

ProcessingAfterSendKept(sd) == TRUE

\* pc.processingLocalSDP = messageToSend.type === self.HANDSHAKE_PROGRESS.OFFER
ProcessingAfterSend(sd) == sd.type = OFFER

\* onSuccessCbFn of _setLocalAndSendMessage; processing is the value of
\* pc.processingLocalSDP when the callback is entered.  (pc.setOffer and
\* pc.setAnswer, which it also writes, are read by none of these operations.)
OnSuccessCbFn(e, sd, processing) ==
  /\ triggered' = <<Trigger(e, sd.type)>>
  /\ IF Halt(e)
     THEN /\ processingLocalSDP' = [processingLocalSDP EXCEPT ![e] = processing]
          /\ haltedSend' = [haltedSend EXCEPT ![e] = sd]
          /\ UNCHANGED channel
     ELSE /\ processingLocalSDP' =
               [processingLocalSDP EXCEPT ![e] = ProcessingAfterSend(sd)]
          /\ SendChannelMessage(e, Message(e, sd))
          /\ UNCHANGED haltedSend

\* the last branch: an offer is buffered and onSuccessCbFn runs at once, an
\* answer goes to pc.setLocalDescription
SetsDirectlyAlways(sd) == TRUE

SetsDirectly(sd) == sd.type = OFFER

\* pend: the outstanding transport calls once the caller's own has completed
SetLocalAndSendMessage(e, sdIn, pend, caller) ==
  IF Reject(e, sdIn) # "none"
  THEN /\ last' = Ran(caller, e, Reject(e, sdIn))
       /\ pending' = [pending EXCEPT ![e] = pend]
       /\ triggered' = <<>>
       /\ UNCHANGED <<processingLocalSDP, bufferedLocalOffer, channel,
                      haltedSend>>
  ELSE LET sd == LocalPipeline(sdIn) IN
       IF SetsDirectly(sd)
       THEN /\ bufferedLocalOffer' =
                 [bufferedLocalOffer EXCEPT ![e] =
                    IF sd.type = OFFER THEN sd ELSE @]
            /\ OnSuccessCbFn(e, sd, TRUE)
            /\ pending' = [pending EXCEPT ![e] = pend]
            /\ last' = Accepted(caller, e)
       ELSE /\ processingLocalSDP' = [processingLocalSDP EXCEPT ![e] = TRUE]
            /\ CallTransport(e, pend, "setLocalDescription", sd)
            /\ last' = Accepted(caller, e)
            /\ triggered' = <<>>
            /\ UNCHANGED <<bufferedLocalOffer, channel, haltedSend>>

\* onSuccessCbFn of _doOffer, handed the created offer with the sdp body
CreatedOffer(e, i, body) ==
  /\ pending[e][i].op = "createOffer"
  /\ SetLocalAndSendMessage(e, Desc(OFFER, body), RemoveAt(pending[e], i),
                            "setLocalOffer")
  /\ UNCHANGED <<config, peerConnections, signalingState, gathered,
                 sdpConstraints, localDescription, budget>>

CreateOfferSuccess(e, i) == \E body \in CreatedBodies : CreatedOffer(e, i, body)

\* onSuccessCbFn of _doAnswer, handed the created answer with the sdp body
CreatedAnswer(e, i, body) ==
  /\ pending[e][i].op = "createAnswer"
  /\ SetLocalAndSendMessage(e, Desc(ANSWER, body), RemoveAt(pending[e], i),
                            "setLocalAnswer")
  /\ UNCHANGED <<config, peerConnections, signalingState, gathered,
                 sdpConstraints, localDescription, budget>>

CreateAnswerSuccess(e, i) == \E body \in CreatedBodies : CreatedAnswer(e, i, body)

\* onErrorCbFn of _doOffer and of _doAnswer
CreateError(e, i) ==
  /\ pending[e][i].op \in {"createOffer", "createAnswer"}
  /\ pending' = [pending EXCEPT ![e] = RemoveAt(@, i)]
  /\ triggered' = <<Trigger(e, ERROR)>>
  /\ last' = Ran("createError", e, pending[e][i].op)
  /\ UNCHANGED <<config, pcVars, localDescription, channel, haltedSend, budget>>

\* pc.setLocalDescription acknowledges the answer: the transport is back to
\* "stable", then onSuccessCbFn of _setLocalAndSendMessage runs
SetLocalSuccess(e, i) ==
  /\ pending[e][i].op = "setLocalDescription"
  /\ signalingState[e] = HAVE_REMOTE_OFFER
  /\ signalingState' = [signalingState EXCEPT ![e] = STABLE]
  /\ localDescription' = [localDescription EXCEPT ![e] = pending[e][i].sd]
  /\ pending' = [pending EXCEPT ![e] = RemoveAt(@, i)]
  /\ OnSuccessCbFn(e, pending[e][i].sd, processingLocalSDP[e])
  /\ last' = Ran("setLocalSuccess", e, pending[e][i].sd.type)
  /\ UNCHANGED <<config, peerConnections, gathered, bufferedLocalOffer,
                 sdpConstraints, budget>>

\* pc.processingLocalSDP = false in onErrorCbFn
ProcessingAfterErrorKept(e) == processingLocalSDP[e]

ProcessingAfterError(e) == FALSE

\* onErrorCbFn of _setLocalAndSendMessage
SetLocalError(e, i) ==
  /\ pending[e][i].op = "setLocalDescription"
  /\ pending' = [pending EXCEPT ![e] = RemoveAt(@, i)]
  /\ processingLocalSDP' =
       [processingLocalSDP EXCEPT ![e] = ProcessingAfterError(e)]
  /\ triggered' = <<Trigger(e, ERROR)>>
  /\ last' = Ran("setLocalError", e, pending[e][i].sd.type)
  /\ UNCHANGED <<config, peerConnections, signalingState, gathered,
                 bufferedLocalOffer, sdpConstraints, localDescription,
                 channel, haltedSend, budget>>

(* ---------------------------------------------------------------------- *)
(* The collaborators of the three operations: ICE gathering, the handlers  *)
(* of remote descriptions and peer removal                                 *)
(* ---------------------------------------------------------------------- *)
\* ICE candidate gathering of the peer completes; with trickle disabled the
\* description whose sending was halted is flushed to the remote endpoint
GatheringComplete(e) ==
  /\ peerConnections[e]
  /\ ~gathered[e]
  /\ gathered' = [gathered EXCEPT ![e] = TRUE]
  /\ IF ~enableIceTrickle /\ haltedSend[e] # NoDesc
     THEN /\ SendChannelMessage(e, Message(e, haltedSend[e]))
          /\ processingLocalSDP' =
               [processingLocalSDP EXCEPT ![e] = (haltedSend[e].type = OFFER)]
          /\ haltedSend' = [haltedSend EXCEPT ![e] = NoDesc]
          /\ last' = Ran("gatheringComplete", e, "flushed")
     ELSE /\ last' = Ran("gatheringComplete", e, "none")
          /\ UNCHANGED <<channel, processingLocalSDP, haltedSend>>
  /\ triggered' = <<>>
  /\ UNCHANGED <<config, peerConnections, signalingState, bufferedLocalOffer,
                 sdpConstraints, pending, localDescription, budget>>

\* glare: a remote offer arrives while a local offer is pending
Glare(e) == bufferedLocalOffer[e] # NoDesc

\* the higher-weight endpoint keeps its own offer and drops the remote one
LocalOfferWins(e, msg) == Glare(e) /\ peerPriorityWeight(e) > msg.weight

\* applyRemoteDescription of an offer
ReceiveOffer(e) ==
  /\ channel[e] # <<>>
  /\ Head(channel[e]).type = OFFER
  /\ channel' = [channel EXCEPT ![e] = Tail(@)]
  /\ IF ~peerConnections[e]
     THEN /\ last' = Ran("receiveOffer", e, "dropped_no_connection")
          /\ triggered' = <<>>
          /\ UNCHANGED <<signalingState, processingLocalSDP, bufferedLocalOffer,
                         haltedSend>>
     ELSE IF LocalOfferWins(e, Head(channel[e]))
     THEN /\ last' = Ran("receiveOffer", e, "dropped_local_offer_wins")
          /\ triggered' = <<>>
          /\ UNCHANGED <<signalingState, processingLocalSDP, bufferedLocalOffer,
                         haltedSend>>
     ELSE /\ bufferedLocalOffer' = [bufferedLocalOffer EXCEPT ![e] = NoDesc]
          /\ processingLocalSDP' =
               [processingLocalSDP EXCEPT ![e] = IF Glare(e) THEN FALSE ELSE @]
          /\ haltedSend' =
               [haltedSend EXCEPT ![e] = IF Glare(e) THEN NoDesc ELSE @]
          /\ \/ /\ signalingState[e] = STABLE
                /\ signalingState' = [signalingState EXCEPT ![e] = HAVE_REMOTE_OFFER]
                /\ last' = Ran("receiveOffer", e,
                               IF Glare(e) THEN "applied_local_offer_discarded"
                               ELSE "applied")
                /\ triggered' = <<>>
             \/ /\ triggered' = <<Trigger(e, ERROR)>>
                /\ last' = Ran("receiveOffer", e, "failed")
                /\ UNCHANGED signalingState
  /\ UNCHANGED <<config, peerConnections, gathered, sdpConstraints,
                 pending, localDescription, budget>>

\* an answer arrives for the buffered local offer: the offer is applied to
\* the transport first
ApplyBufferedOffer(e) ==
  /\ channel[e] # <<>>
  /\ Head(channel[e]).type = ANSWER
  /\ peerConnections[e]
  /\ signalingState[e] = STABLE
  /\ bufferedLocalOffer[e] # NoDesc
  /\ \/ /\ signalingState' = [signalingState EXCEPT ![e] = HAVE_LOCAL_OFFER]
        /\ localDescription' =
             [localDescription EXCEPT ![e] = bufferedLocalOffer[e]]
        /\ last' = Ran("applyBufferedOffer", e, "applied")
        /\ triggered' = <<>>
        /\ UNCHANGED <<channel, processingLocalSDP, bufferedLocalOffer>>
     \/ /\ channel' = [channel EXCEPT ![e] = Tail(@)]
        /\ processingLocalSDP' = [processingLocalSDP EXCEPT ![e] = FALSE]
        /\ bufferedLocalOffer' = [bufferedLocalOffer EXCEPT ![e] = NoDesc]
        /\ triggered' = <<Trigger(e, ERROR)>>
        /\ last' = Ran("applyBufferedOffer", e, "failed")
        /\ UNCHANGED <<signalingState, localDescription>>
  /\ UNCHANGED <<config, peerConnections, gathered, sdpConstraints,
                 pending, haltedSend, budget>>

\* applyRemoteDescription of an answer
ReceiveAnswer(e) ==
  /\ channel[e] # <<>>
  /\ Head(channel[e]).type = ANSWER
  /\ ~(peerConnections[e] /\ signalingState[e] = STABLE
         /\ bufferedLocalOffer[e] # NoDesc)
  /\ channel' = [channel EXCEPT ![e] = Tail(@)]
  /\ IF peerConnections[e] /\ signalingState[e] = HAVE_LOCAL_OFFER
     THEN /\ signalingState' = [signalingState EXCEPT ![e] = STABLE]
          /\ processingLocalSDP' = [processingLocalSDP EXCEPT ![e] = FALSE]
          /\ bufferedLocalOffer' = [bufferedLocalOffer EXCEPT ![e] = NoDesc]
          /\ last' = Ran("receiveAnswer", e, "applied")
     ELSE /\ last' = Ran("receiveAnswer", e, "dropped")
          /\ UNCHANGED <<signalingState, processingLocalSDP, bufferedLocalOffer>>
  /\ triggered' = <<>>
  /\ UNCHANGED <<config, peerConnections, gathered, sdpConstraints,
                 pending, localDescription, haltedSend, budget>>

\* the peer is removed: its connection is closed and forgotten; callbacks of
\* outstanding transport calls can still fire
RemovePeer(e) ==
  /\ e \in Removable
  /\ peerConnections[e]
  /\ peerConnections' = [peerConnections EXCEPT ![e] = FALSE]
  /\ signalingState' = [signalingState EXCEPT ![e] = CLOSED]
  /\ last' = Ran("removePeer", e, "none")
  /\ triggered' = <<>>
  /\ UNCHANGED <<config, processingLocalSDP, gathered, bufferedLocalOffer,
                 sdpConstraints, ioVars, budget>>

(* ---------------------------------------------------------------------- *)
(* Connectivity monitor, stats sampler and bandwidth adjuster              *)
(*                                                                         *)
(* Two handlers of the repository process the transport's connectivity     *)
(* signals: oniceconnectionstatechange (peer-addition callbacks) and the   *)
(* transport.onstatechange closure that onSuccessCbFn installs on Chrome   *)
(* 75.  In this part an index e stands for the session with peer           *)
(* targetMid that the instance holds; `setup` says which handler runs.     *)
(* ---------------------------------------------------------------------- *)
\* signals the transport delivers to a session
MaxSignals == 2
\* handler closures onSuccessCbFn installs for a session (renegotiations)
MaxInstalls == 2
\* self._retrieveStats calls of a session that can be outstanding together
MaxRetrieving == 1
\* signals of a peer in the runs of the adjuster alone
AdjusterSignals == 1

\* the sessions whose connectivity is monitored during the run
Monitored == {"A"}

\* ICE_CONNECTION_STATE (its CLOSED is the string of PEER_CONNECTION_STATE)
ICE_NEW == "new"
CHECKING == "checking"
CONNECTED == "connected"
COMPLETED == "completed"
FAILED == "failed"
DISCONNECTED == "disconnected"
TRICKLE_FAILED == "trickleFailed"

\* raw state names only some transports report
CONNECTING == "connecting"

\* the two handlers
OnIceHandler == "oniceconnectionstatechange"
OnStateHandler == "transport.onstatechange"

\* AdapterJS.webrtcDetectedType of a browser
DetectedType(browser) ==
  CASE browser = "safari" -> "AppleWebKit"
    [] browser = "edge" -> "ms"
    [] OTHER -> "webkit"

\* self._bandwidthAdjuster: null or the configured options
NoAdjuster == [interval |-> 0, limitAtPercentage |-> 0, useUploadBwOnly |-> FALSE]
Adjusters ==
  { NoAdjuster,
    [interval |-> 2, limitAtPercentage |-> 50, useUploadBwOnly |-> TRUE],
    [interval |-> 2, limitAtPercentage |-> 50, useUploadBwOnly |-> FALSE] }

\* the adjuster options of the sessions that run the adjuster alone: the
\* window of five intervals, upload only or not
WindowAdjusters ==
  { [interval |-> 5, limitAtPercentage |-> 50, useUploadBwOnly |-> TRUE],
    [interval |-> 5, limitAtPercentage |-> 50, useUploadBwOnly |-> FALSE] }

\* the browsers, and the agent names a remote peer announces ("" when the
\* peer information holds none)
Browsers == {"chrome", "edge", "safari"}
AgentNames == {"chrome", "edge", ""}

\* the configurations a session can run in: the onstatechange closure exists
\* on Chrome only
Setups ==
  { s \in [handler : {OnIceHandler, OnStateHandler}, browser : Browsers,
           hasMCU : BOOLEAN, bandwidthAdjuster : Adjusters,
           agent : AgentNames] :
      s.handler = OnStateHandler => s.browser = "chrome" }

\* the states a transport can report to each handler: RTCIceConnectionState
\* to oniceconnectionstatechange (edge reports 'connecting' too),
\* RTCDtlsTransportState to transport.onstatechange
RawStates(s) ==
  IF s.handler = OnIceHandler
  THEN {ICE_NEW, CHECKING, CONNECTED, COMPLETED, FAILED, DISCONNECTED, CLOSED}
         \cup (IF s.browser = "edge" THEN {CONNECTING} ELSE {})
  ELSE {ICE_NEW, CONNECTING, CONNECTED, FAILED, CLOSED}

\* what stats.{audio,video}.{sending,receiving}.bytes of a pull can be
StatsResults ==
  { [audio |-> [sending |-> 2525, receiving |-> 0],
     video |-> [sending |-> 12500, receiving |-> 25000]],
    [audio |-> [sending |-> 0, receiving |-> 2500],
     video |-> [sending |-> 0, receiving |-> 0]] }

\* the (err, stats) pairs a self._retrieveStats callback can be called with
RetrieveOutcomes ==
  { [err |-> FALSE, stats |-> s] : s \in StatsResults }
    \cup { [err |-> TRUE, stats |-> CHOOSE s \in StatsResults : TRUE] }

\* the window object { audio: {send, recv}, video: {send, recv} }
Window(as, ar, vs, vr) ==
  [audio |-> [send |-> as, recv |-> ar], video |-> [send |-> vs, recv |-> vr]]

EmptyWindow == Window(<<>>, <<>>, <<>>, <<>>)

VARIABLES
  setup,                    \* the handler, browser and options of the run
  iceConnectionState,       \* e -> raw state the transport reported last
  connected,                \* e -> peerConnStatus[e].connected
  dispatched,               \* iceConnectionState events of the step that ran last
  closedTimeouts,           \* e -> pending setTimeout(..., 10) callbacks
  closedInWindow,           \* e -> CLOSED events of the timeouts pending together
  iceConnectionStateClosed, \* e -> peerConnection.iceConnectionStateClosed
  peerStats,                \* e -> TRUE iff peerStats[e] is set
  statsInterval,            \* e -> `statsInterval` of the installed closure
  backfills,                \* e -> outstanding initial getConnectionStatus calls
  statsIntervals,           \* e -> armed 20 s intervals
  intervalsCreated,         \* e -> 20 s intervals created so far
  adjustmentCalls,          \* e -> setAdjustmentInterval() calls so far
  bandwidth,                \* the free variable `bandwidth` of the closures:
                            \* <<>> while unassigned, else <<window>>
  currentBlock,             \* e -> `currentBlock` of the session's adjuster
  pullIntervals,            \* e -> armed 1 s intervals
  retrieving,               \* e -> outstanding self._retrieveStats calls
  refreshConnectionCalls,   \* self.refreshConnection calls of the step that ran last
  signalsLeft,              \* e -> remaining signals
  installsLeft              \* e -> remaining closure installations

iceVars == <<iceConnectionState, connected, closedTimeouts, closedInWindow,
             iceConnectionStateClosed>>
samplerVars == <<peerStats, statsInterval, backfills, statsIntervals,
                 intervalsCreated>>
adjusterVars == <<adjustmentCalls, bandwidth, currentBlock, pullIntervals,
                  retrieving, refreshConnectionCalls>>
monBudget == <<signalsLeft, installsLeft>>
monVars == <<setup, iceConnectionState, connected, dispatched, closedTimeouts,
             closedInWindow, iceConnectionStateClosed, peerStats,
             statsInterval, backfills, statsIntervals, intervalsCreated,
             adjustmentCalls, bandwidth, currentBlock, pullIntervals,
             retrieving, refreshConnectionCalls, signalsLeft, installsLeft>>
\* the state of the selected candidate pair parser
VARIABLES
  stored,                   \* the store the parser reads (peerBandwidth[peerId]
                            \* when isAutoBwStats, else peerStats[peerId]): <<>> or
                            \* <<the report retrieved last>>
  before,                   \* what the store held when that report was parsed
  selectedCandidatePair     \* output.selectedCandidatePair of the last retrieval

parserVars == <<stored, before, selectedCandidatePair>>

VARIABLES
  renegotiation             \* the renegotiateIfNeeded call of the run: its phase,
                            \* the stats of the senders, the recorded senders
                            \* and the value it resolved with

advisorVars == <<renegotiation>>

VARIABLES
  inRoom,                   \* self._inRoom
  channelOpen,              \* self._channelOpen
  channelClosing,           \* _closeChannel was called on an open channel that
                            \* has not reported its closing yet
  peerInformations,         \* the keys of self._peerInformations
  knownConnections,         \* the keys of self._peerConnections of the room
  leaveWaits,               \* the callbacks of the leaveRoom calls whose _wait
                            \* has not fired yet
  joinPhase,                \* where the joinRoom call of the user stands
  joinOptions,              \* its mediaOptions
  current50Block,           \* the poll counter of _waitForOpenChannel
  userMediaStream,          \* self._streams.userMedia.stream is set
  joinCallbacks,            \* the invocations of the callback of that call
  removals,                 \* the _removePeer calls per peer of the step taken
  emitted,                  \* the events, callbacks and messages of the step
                            \* taken, in their order
  roomCalls,                \* joinRoom and leaveRoom calls left to the user
  roomLast                  \* the room operation that ran last

roomVars == <<inRoom, channelOpen, channelClosing, peerInformations,
              knownConnections, leaveWaits, joinPhase, joinOptions,
              current50Block, userMediaStream, joinCallbacks, removals,
              emitted, roomCalls, roomLast>>

allVars == <<vars, monVars, parserVars, advisorVars, roomVars>>

\* the sessions right after the peers were added: no signal arrived yet
MonitorInit ==
  /\ iceConnectionState = [e \in Endpoints |-> ICE_NEW]
  /\ connected = [e \in Endpoints |-> FALSE]
  /\ dispatched = <<>>
  /\ closedTimeouts = [e \in Endpoints |-> 0]
  /\ closedInWindow = [e \in Endpoints |-> 0]
  /\ iceConnectionStateClosed = [e \in Endpoints |-> FALSE]
  /\ peerStats = [e \in Endpoints |-> FALSE]
  /\ statsInterval = [e \in Endpoints |->
       IF setup.handler = OnIceHandler THEN "null" ELSE "none"]
  /\ backfills = [e \in Endpoints |-> 0]
  /\ statsIntervals = [e \in Endpoints |-> 0]
  /\ intervalsCreated = [e \in Endpoints |-> 0]
  /\ adjustmentCalls = [e \in Endpoints |-> 0]
  /\ bandwidth = <<>>
  /\ currentBlock = [e \in Endpoints |-> 0]
  /\ pullIntervals = [e \in Endpoints |-> 0]
  /\ retrieving = [e \in Endpoints |-> 0]
  /\ refreshConnectionCalls = <<>>

\* a monitor step leaves the negotiation engine alone
MonitorStep(fn, e, outcome) ==
  /\ last' = Ran(fn, e, outcome)
  /\ triggered' = <<>>
  /\ UNCHANGED <<config, pcVars, ioVars, budget>>

\* dispatchEvent(iceConnectionState({ state, peerId })) and
\* self._trigger('iceConnectionState', state, targetMid)
Event(e, state) == [state |-> state, peerId |-> e]

\* isIceConnectionStateCompleted
IsIceConnectionStateCompleted(state) == state \in {COMPLETED, CONNECTED}

PcIceConnectionStateRaw(s, raw) == raw

\* pcIceConnectionState of oniceconnectionstatechange
PcIceConnectionState(s, raw) ==
  IF s.browser = "edge"
  THEN CASE raw = CONNECTING -> CHECKING
         [] raw = ICE_NEW -> FAILED
         [] OTHER -> raw
  ELSE raw

\* iceConnectionState of transport.onstatechange
TransportState(raw) == IF raw = CONNECTING THEN CHECKING ELSE raw

\* the state a handler makes of a raw state
Canonical(s, raw) ==
  IF s.handler = OnIceHandler THEN PcIceConnectionState(s, raw)
  ELSE TransportState(raw)

\* the secondary event of oniceconnectionstatechange
SecondaryEvents(e, state) ==
  IF state = FAILED THEN <<Event(e, TRICKLE_FAILED)>> ELSE <<>>

SecondaryTriggersAlways(e, state) ==
  IF state = FAILED THEN <<Event(e, TRICKLE_FAILED)>> ELSE <<>>

\* the secondary event of transport.onstatechange
SecondaryTriggers(e, state) ==
  IF state = FAILED /\ enableIceTrickle THEN <<Event(e, TRICKLE_FAILED)>>
  ELSE <<>>

\* (peerInformations[targetMid].agent.name || 'edge')
AgentName(s) == IF s.agent = "" THEN "edge" ELSE s.agent

EligibleWithoutAgent(s, state) ==
  /\ ~s.hasMCU
  /\ IsIceConnectionStateCompleted(state)
  /\ s.bandwidthAdjuster # NoAdjuster
  /\ s.browser # "edge"

\* the condition both handlers start a bandwidth adjuster on
Eligible(s, state) ==
  /\ ~s.hasMCU
  /\ IsIceConnectionStateCompleted(state)
  /\ s.bandwidthAdjuster # NoAdjuster
  /\ s.browser # "edge"
  /\ AgentName(s) # "edge"

DeferredNever(s, state) == FALSE

\* the AppleWebKit branch that defers a CLOSED state by 10 ms
Deferred(s, state) ==
  DetectedType(s.browser) = "AppleWebKit" /\ state = CLOSED

(* ---------------------------------------------------------------------- *)
(* oniceconnectionstatechange                                              *)
(* ---------------------------------------------------------------------- *)
OnIceConnectionStateChange(e, raw) ==
  LET pcIceConnectionState == PcIceConnectionState(setup, raw)
      completed == IsIceConnectionStateCompleted(pcIceConnectionState)
  IN
  /\ setup.handler = OnIceHandler
  /\ signalsLeft[e] > 0
  /\ signalsLeft' = [signalsLeft EXCEPT ![e] = @ - 1]
  /\ iceConnectionState' = [iceConnectionState EXCEPT ![e] = raw]
  /\ refreshConnectionCalls' = <<>>
  /\ IF Deferred(setup, pcIceConnectionState)
     THEN /\ closedTimeouts' = [closedTimeouts EXCEPT ![e] = @ + 1]
          /\ closedInWindow' =
               [closedInWindow EXCEPT ![e] = IF closedTimeouts[e] = 0 THEN 0 ELSE @]
          /\ dispatched' = <<>>
          /\ MonitorStep(OnIceHandler, e, "deferred")
          /\ UNCHANGED <<connected, peerStats, backfills, adjustmentCalls>>
     ELSE /\ dispatched' = <<Event(e, pcIceConnectionState)>>
                             \o SecondaryEvents(e, pcIceConnectionState)
          /\ connected' = [connected EXCEPT ![e] = completed]
          /\ IF completed /\ ~peerStats[e]
             THEN /\ peerStats' = [peerStats EXCEPT ![e] = TRUE]
                  /\ backfills' = [backfills EXCEPT ![e] = @ + 1]
             ELSE UNCHANGED <<peerStats, backfills>>
          /\ adjustmentCalls' =
               [adjustmentCalls EXCEPT ![e] =
                  IF Eligible(setup, pcIceConnectionState) THEN @ + 1 ELSE @]
          /\ MonitorStep(OnIceHandler, e, "dispatched")
          /\ UNCHANGED <<closedTimeouts, closedInWindow>>
  /\ UNCHANGED <<setup, iceConnectionStateClosed, statsInterval,
                 statsIntervals, intervalsCreated, bandwidth, currentBlock,
                 pullIntervals, retrieving, installsLeft>>

\* the setTimeout callback of the AppleWebKit branch
DelayedClosed(e) ==
  /\ closedTimeouts[e] > 0
  /\ closedTimeouts' = [closedTimeouts EXCEPT ![e] = @ - 1]
  /\ IF ~iceConnectionStateClosed[e]
     THEN /\ dispatched' = <<Event(e, CLOSED)>>
          /\ closedInWindow' = [closedInWindow EXCEPT ![e] = @ + 1]
          /\ MonitorStep("setTimeout", e, "dispatched")
     ELSE /\ dispatched' = <<>>
          /\ MonitorStep("setTimeout", e, "none")
          /\ UNCHANGED closedInWindow
  /\ refreshConnectionCalls' = <<>>
  /\ UNCHANGED <<setup, iceConnectionState, connected,
                 iceConnectionStateClosed, samplerVars, adjustmentCalls,
                 bandwidth, currentBlock, pullIntervals, retrieving,
                 monBudget>>

\* the teardown of a removed peer marks its connection as closed
MarkIceConnectionStateClosed(e) ==
  /\ ~peerConnections[e]
  /\ ~iceConnectionStateClosed[e]
  /\ iceConnectionStateClosed' = [iceConnectionStateClosed EXCEPT ![e] = TRUE]
  /\ dispatched' = <<>>
  /\ refreshConnectionCalls' = <<>>
  /\ MonitorStep("teardown", e, "none")
  /\ UNCHANGED <<setup, iceConnectionState, connected, closedTimeouts,
                 closedInWindow, samplerVars, adjustmentCalls, bandwidth,
                 currentBlock, pullIntervals, retrieving, monBudget>>

(* ---------------------------------------------------------------------- *)
(* transport.onstatechange (the Chrome 75 block of onSuccessCbFn)          *)
(* ---------------------------------------------------------------------- *)
\* onSuccessCbFn assigns a new closure, with its own `statsInterval`, to
\* pc.getSenders()[0].transport.onstatechange
InstallHandler(e) ==
  /\ setup.handler = OnStateHandler
  /\ peerConnections[e]
  /\ installsLeft[e] > 0
  /\ installsLeft' = [installsLeft EXCEPT ![e] = @ - 1]
  /\ statsInterval' = [statsInterval EXCEPT ![e] = "null"]
  /\ dispatched' = <<>>
  /\ refreshConnectionCalls' = <<>>
  /\ MonitorStep("onSuccessCbFn", e, "installed")
  /\ UNCHANGED <<setup, iceVars, peerStats, backfills, statsIntervals,
                 intervalsCreated, adjustmentCalls, bandwidth, currentBlock,
                 pullIntervals, retrieving, signalsLeft>>

OnStateChange(e, raw) ==
  LET state == TransportState(raw)
      completed == IsIceConnectionStateCompleted(state)
  IN
  /\ setup.handler = OnStateHandler
  /\ statsInterval[e] # "none"
  /\ signalsLeft[e] > 0
  /\ signalsLeft' = [signalsLeft EXCEPT ![e] = @ - 1]
  /\ iceConnectionState' = [iceConnectionState EXCEPT ![e] = raw]
  /\ dispatched' = <<Event(e, state)>> \o SecondaryTriggers(e, state)
  /\ connected' = [connected EXCEPT ![e] = completed]
  /\ IF statsInterval[e] = "null" /\ completed
     THEN /\ statsInterval' = [statsInterval EXCEPT ![e] = "true"]
          /\ backfills' = [backfills EXCEPT ![e] = @ + 1]
     ELSE UNCHANGED <<statsInterval, backfills>>
  /\ IF Eligible(setup, state) /\ bandwidth = <<>>
     THEN /\ currentBlock' = [currentBlock EXCEPT ![e] = 0]
          /\ bandwidth' = <<EmptyWindow>>
          /\ pullIntervals' = [pullIntervals EXCEPT ![e] = @ + 1]
     ELSE UNCHANGED <<currentBlock, bandwidth, pullIntervals>>
  /\ refreshConnectionCalls' = <<>>
  /\ MonitorStep(OnStateHandler, e, "dispatched")
  /\ UNCHANGED <<setup, closedTimeouts, closedInWindow,
                 iceConnectionStateClosed, peerStats, statsIntervals,
                 intervalsCreated, adjustmentCalls, retrieving, installsLeft>>

(* ---------------------------------------------------------------------- *)
(* Stats sampler: the initial retrieval and the 20 s interval              *)
(* ---------------------------------------------------------------------- *)
AliveAlways(e) == TRUE

\* the connection both intervals test before they pull
Alive(e) == peerConnections[e] /\ signalingState[e] # CLOSED

\* the initial getConnectionStatus completes and its callback creates the
\* interval; own: the callback belongs to the closure that is installed now
BackfillDone(e, own) ==
  /\ backfills[e] > 0
  /\ IF own THEN statsInterval[e] = "true"
     ELSE backfills[e] > (IF statsInterval[e] = "true" THEN 1 ELSE 0)
  /\ backfills' = [backfills EXCEPT ![e] = @ - 1]
  /\ statsInterval' = [statsInterval EXCEPT ![e] = IF own THEN "timer" ELSE @]
  /\ statsIntervals' = [statsIntervals EXCEPT ![e] = @ + 1]
  /\ intervalsCreated' = [intervalsCreated EXCEPT ![e] = @ + 1]
  /\ dispatched' = <<>>
  /\ refreshConnectionCalls' = <<>>
  /\ MonitorStep("getConnectionStatus", e, "interval")
  /\ UNCHANGED <<setup, iceVars, peerStats, adjusterVars, monBudget>>

\* the promise of oniceconnectionstatechange's getConnectionStatus rejects:
\* its then-callback never runs
BackfillRejected(e) ==
  /\ setup.handler = OnIceHandler
  /\ backfills[e] > 0
  /\ backfills' = [backfills EXCEPT ![e] = @ - 1]
  /\ dispatched' = <<>>
  /\ refreshConnectionCalls' = <<>>
  /\ MonitorStep("getConnectionStatus", e, "rejected")
  /\ UNCHANGED <<setup, iceVars, peerStats, statsInterval, statsIntervals,
                 intervalsCreated, adjusterVars, monBudget>>

StatsTickStopsNever(e) == FALSE

\* what a tick of the 20 s interval finds: oniceconnectionstatechange tests
\* the connection object it holds, the closure looks the connection up
StatsTickStops(e) ==
  IF setup.handler = OnIceHandler THEN signalingState[e] = CLOSED
  ELSE ~Alive(e)

\* one tick of a 20 s interval
StatsTick(e) ==
  /\ statsIntervals[e] > 0
  /\ IF StatsTickStops(e)
     THEN /\ statsIntervals' = [statsIntervals EXCEPT ![e] = @ - 1]
          /\ MonitorStep("statsInterval", e, "cleared")
     ELSE /\ MonitorStep("statsInterval", e, "pull")
          /\ UNCHANGED statsIntervals
  /\ dispatched' = <<>>
  /\ refreshConnectionCalls' = <<>>
  /\ UNCHANGED <<setup, iceVars, peerStats, statsInterval, backfills,
                 intervalsCreated, adjusterVars, monBudget>>

(* ---------------------------------------------------------------------- *)
(* Bandwidth adjuster of transport.onstatechange: the 1 s interval         *)
(* ---------------------------------------------------------------------- *)
\* self._peerBandwidth[targetMid] is kept while the peer is
PeerBandwidth(e) == peerConnections[e]

\* one tick of the 1 s interval
PullTick(e) ==
  /\ pullIntervals[e] > 0
  /\ IF ~Alive(e) \/ setup.bandwidthAdjuster = NoAdjuster \/ ~PeerBandwidth(e)
     THEN /\ pullIntervals' = [pullIntervals EXCEPT ![e] = @ - 1]
          /\ MonitorStep("pullInterval", e, "cleared")
          /\ UNCHANGED retrieving
     ELSE /\ retrieving[e] < MaxRetrieving
          /\ retrieving' = [retrieving EXCEPT ![e] = @ + 1]
          /\ MonitorStep("pullInterval", e, "retrieve")
          /\ UNCHANGED pullIntervals
  /\ dispatched' = <<>>
  /\ refreshConnectionCalls' = <<>>
  /\ UNCHANGED <<setup, iceVars, samplerVars, adjustmentCalls, bandwidth,
                 currentBlock, monBudget>>

RECURSIVE SumOf(_)
SumOf(arr) == IF arr = <<>> THEN 0 ELSE Head(arr) + SumOf(Tail(arr))

AveragedSendOnly(adj, send, recv) == [num |-> SumOf(send), den |-> Len(send)]

\* totalAudioBw / totalVideoBw before the percentage is applied, as the
\* fraction num / den: formatTotalFn(send), or the mean of formatTotalFn(send)
\* and formatTotalFn(recv) unless useUploadBwOnly
Averaged(adj, send, recv) ==
  IF adj.useUploadBwOnly
  THEN [num |-> SumOf(send), den |-> Len(send)]
  ELSE [num |-> SumOf(send) * Len(recv) + SumOf(recv) * Len(send),
        den |-> 2 * Len(send) * Len(recv)]

TotalBwUnlimited(adj, send, recv) ==
  Averaged(adj, send, recv).num \div (Averaged(adj, send, recv).den * 1000)

\* parseInt((total * (limitAtPercentage / 100)) / 1000, 10)
TotalBw(adj, send, recv) ==
  (Averaged(adj, send, recv).num * adj.limitAtPercentage)
    \div (Averaged(adj, send, recv).den * 100 * 1000)

PushedUnlessFailed(w, r) ==
  IF r.err THEN w
  ELSE Window(Append(w.audio.send, r.stats.audio.sending * 8),
              Append(w.audio.recv, r.stats.audio.receiving * 8),
              Append(w.video.send, r.stats.video.sending * 8),
              Append(w.video.recv, r.stats.video.receiving * 8))

\* the four pushes of a self._retrieveStats callback
Pushed(w, r) ==
  IF r.err
  THEN Window(Append(w.audio.send, 0), Append(w.audio.recv, 0),
              Append(w.video.send, 0), Append(w.video.recv, 0))
  ELSE Window(Append(w.audio.send, r.stats.audio.sending * 8),
              Append(w.audio.recv, r.stats.audio.receiving * 8),
              Append(w.video.send, r.stats.video.sending * 8),
              Append(w.video.recv, r.stats.video.receiving * 8))

BlockCompleteNever(e, adj) == FALSE

\* currentBlock++ followed by currentBlock === self._bandwidthAdjuster.interval
BlockComplete(e, adj) == currentBlock[e] + 1 = adj.interval

\* the callback of self._retrieveStats
PullResult(e, r) ==
  /\ retrieving[e] > 0
  /\ retrieving' = [retrieving EXCEPT ![e] = @ - 1]
  /\ dispatched' = <<>>
  /\ IF ~Alive(e) \/ setup.bandwidthAdjuster = NoAdjuster
     THEN /\ pullIntervals' = [pullIntervals EXCEPT ![e] = 0]
          /\ refreshConnectionCalls' = <<>>
          /\ MonitorStep("retrieveStats", e, "cleared")
          /\ UNCHANGED <<bandwidth, currentBlock>>
     ELSE LET w == Pushed(bandwidth[1], r)
              adj == setup.bandwidthAdjuster
          IN /\ IF BlockComplete(e, adj)
                THEN /\ currentBlock' = [currentBlock EXCEPT ![e] = 0]
                     /\ bandwidth' = <<EmptyWindow>>
                     /\ refreshConnectionCalls' =
                          << [peerId |-> e,
                              audio |-> TotalBw(adj, w.audio.send, w.audio.recv),
                              video |-> TotalBw(adj, w.video.send, w.video.recv)] >>
                     /\ MonitorStep("retrieveStats", e, "refreshed")
                ELSE /\ currentBlock' = [currentBlock EXCEPT ![e] = @ + 1]
                     /\ bandwidth' = <<w>>
                     /\ refreshConnectionCalls' = <<>>
                     /\ MonitorStep("retrieveStats", e, "pushed")
             /\ UNCHANGED pullIntervals
  /\ UNCHANGED <<setup, iceVars, samplerVars, adjustmentCalls, monBudget>>

\* the removal of a peer, seen from the monitor
RemoveMonitored(e) ==
  /\ RemovePeer(e)
  /\ dispatched' = <<>>
  /\ refreshConnectionCalls' = <<>>
  /\ UNCHANGED <<setup, iceVars, samplerVars, adjustmentCalls, bandwidth,
                 currentBlock, pullIntervals, retrieving, monBudget>>

(* ---------------------------------------------------------------------- *)
(* Selected candidate pair parser (parseSelectedCandidatePair)             *)
(* ---------------------------------------------------------------------- *)
\* the cumulative counters of a candidate-pair entry
Counters ==
  {"totalRoundTripTime", "consentRequestsSent", "requestsReceived",
   "requestsSent", "responsesSent", "responsesReceived"}

\* the values a counter takes in the reports of a run
CounterValues == {0, 2}

\* an entry without counters: raw.x || '0' reads each of them as 0
NoCounters == [c \in Counters |-> 0]

\* a candidateType label is a string, held as the sequence of its characters
Relay == <<"r", "e", "l", "a", "y">>
Host == <<"h", "o", "s", "t">>
Srflx == <<"s", "r", "f", "l", "x">>
Prflx == <<"p", "r", "f", "l", "x">>
Relayed == <<"r", "e", "l", "a", "y", "e", "d">>
LocalType == <<"l", "o", "c", "a", "l">>
ServerReflexive ==
  <<"s", "e", "r", "v", "e", "r", "r", "e", "f", "l", "e", "x", "i", "v", "e">>

\* the candidate types a transport reports
CandidateTypes == {Relay, Host, Srflx, Prflx}

\* what a label carries around a candidate type: nothing, a partial 'host',
\* a transport suffix
Affixes == {<<>>, <<"h">>, <<"h", "o", "s">>, <<"-", "t", "c", "p">>}

\* the labels formatCanTypeFn is given in a run
Labels ==
  { pre \o core \o suf :
      pre \in Affixes, core \in CandidateTypes \cup {<<>>}, suf \in Affixes }

\* ip, port, protocol and priority of an entry that carries none
NoAddress == [ip |-> "", port |-> 0, protocol |-> "", priority |-> 0]

\* ip, port, protocol and priority of the candidate entries, by id
CandidateAddress(id) ==
  CASE id = "L1" -> [ip |-> "10.0.0.1", port |-> 5001, protocol |-> "udp",
                     priority |-> 100]
    [] id = "R1" -> [ip |-> "192.0.2.1", port |-> 6001, protocol |-> "udp",
                     priority |-> 90]
    [] id = "L2" -> [ip |-> "10.0.0.2", port |-> 5002, protocol |-> "tcp",
                     priority |-> 80]
    [] id = "R2" -> [ip |-> "192.0.2.2", port |-> 6002, protocol |-> "tcp",
                     priority |-> 70]
    [] OTHER -> [ip |-> "198.51.100.1", port |-> 7001, protocol |-> "udp",
                 priority |-> 60]

\* one entry of a stats report
Entry(id, type, selected, local, remote, counters, candidateType) ==
  [id |-> id, type |-> type, selectedCandidatePairId |-> selected,
   localCandidateId |-> local, remoteCandidateId |-> remote,
   counters |-> counters, candidateType |-> candidateType,
   address |-> NoAddress]

TransportEntry(selected) ==
  Entry("T", "transport", selected, "", "", NoCounters, <<>>)
PairEntry(counters) ==
  Entry("P1", "candidate-pair", "", "L1", "R1", counters, <<>>)
CandidateEntry(id, type, candidateType) ==
  [Entry(id, type, "", "", "", NoCounters, candidateType)
     EXCEPT !.address = CandidateAddress(id)]
LocalEntry == CandidateEntry("L1", "local-candidate", Host)
RemoteEntry == CandidateEntry("R1", "remote-candidate", Srflx)

\* the counter samples of a run: every counter at the same value, or one
\* counter apart from the five others
Samples ==
  { [c \in Counters |-> v] : v \in CounterValues }
    \cup { [c \in Counters |-> IF c = d THEN v ELSE w] :
             d \in Counters, v \in CounterValues, w \in CounterValues }

\* the reports of a run, entries in key order: the transport selects the
\* pair, there is no transport entry, or the transport selects a pair that
\* the report does not hold
Reports ==
  UNION { { <<TransportEntry("P1"), PairEntry(s), LocalEntry, RemoteEntry>>,
            <<PairEntry(s), LocalEntry, RemoteEntry>>,
            <<TransportEntry("P2"), PairEntry(s), LocalEntry, RemoteEntry>> } :
          s \in Samples }

\* a report whose selected pair has candidates of the given types
ReportWith(localType, remoteType) ==
  <<TransportEntry("P1"), PairEntry(NoCounters),
    CandidateEntry("L1", "local-candidate", localType),
    CandidateEntry("R1", "remote-candidate", remoteType)>>

\* the candidates a report of a session with two pairs holds, and an entry
\* of another type that carries an address
CandidateEntries ==
  { CandidateEntry("L1", "local-candidate", Host),
    CandidateEntry("R1", "remote-candidate", Srflx),
    CandidateEntry("L2", "local-candidate", Relay),
    CandidateEntry("R2", "remote-candidate", Prflx),
    CandidateEntry("X1", "certificate", <<>>) }

\* the orders a report can hold three of these entries in
CandidateOrders ==
  { o \in { <<a, b, c>> : a \in CandidateEntries, b \in CandidateEntries,
                          c \in CandidateEntries } :
      o[1] # o[2] /\ o[2] # o[3] /\ o[1] # o[3] }

\* the second pair of the session
OtherPairEntry ==
  Entry("P2", "candidate-pair", "", "L2", "R2", NoCounters, <<>>)

\* the reports of such a session: the transport selects the first pair, the
\* second, or there is no transport entry
CandidateReports ==
  UNION { { <<TransportEntry("P1"), PairEntry(NoCounters), OtherPairEntry>> \o o,
            <<TransportEntry("P2"), PairEntry(NoCounters), OtherPairEntry>> \o o,
            <<PairEntry(NoCounters), OtherPairEntry>> \o o } :
          o \in CandidateOrders }

\* raw[key] of a report, as <<>> or <<entry>>
Lookup(raw, key) ==
  LET hits == { i \in 1..Len(raw) : raw[i].id = key }
  IN IF hits = {} THEN <<>> ELSE <<raw[CHOOSE i \in hits : TRUE]>>

\* output.selectedCandidatePair before a report is parsed
BlankCandidate ==
  [id |-> "", ipAddress |-> "", portNumber |-> 0, transport |-> "",
   priority |-> 0, candidateType |-> <<>>]

BlankPair ==
  [id |-> "", total |-> NoCounters, delta |-> NoCounters,
   local |-> BlankCandidate, remote |-> BlankCandidate]

\* String.prototype.indexOf: the zero-based position of the first occurrence
\* of sub in s, -1 when there is none
IndexOf(s, sub) ==
  LET at == { i \in 1..(Len(s) - Len(sub) + 1) :
                SubSeq(s, i, i + Len(sub) - 1) = sub }
  IN IF at = {} THEN -1
     ELSE (CHOOSE i \in at : \A j \in at : i <= j) - 1

FormatCanTypeFnExactOnly(type) ==
  IF type = Relay THEN Relayed
  ELSE IF type = Host THEN LocalType
  ELSE IF type = Srflx THEN ServerReflexive
  ELSE type

\* formatCanTypeFn
FormatCanTypeFn(type) ==
  IF type = Relay THEN Relayed
  ELSE IF type = Host \/ IndexOf(type, Host) > -1 THEN LocalType
  ELSE IF type = Srflx THEN ServerReflexive
  ELSE type

TabulateStatsSwapped(prevStats, stats, c) ==
  IF prevStats = <<>> THEN stats.counters[c]
  ELSE prevStats[1].counters[c] - stats.counters[c]

\* parsers.tabulateStats: the interval value of counter c, against the
\* previous sample when there is one; a counter that went down restarts from
\* its new value
TabulateStats(prevStats, stats, c) ==
  IF prevStats = <<>> THEN stats.counters[c]
  ELSE IF stats.counters[c] >= prevStats[1].counters[c]
       THEN stats.counters[c] - prevStats[1].counters[c]
       ELSE stats.counters[c]

\* prevStats: the entry the previous report holds under key prop
PrevStats(store, prop) ==
  IF store = <<>> THEN <<>> ELSE Lookup(store[1], prop)

\* transportStats: the last entry of type 'transport', as <<>> or <<entry>>
TransportStats(raw) ==
  LET ts == { i \in 1..Len(raw) : raw[i].type = "transport" }
  IN IF ts = {} THEN <<>>
     ELSE <<raw[CHOOSE i \in ts : \A j \in ts : j <= i]>>

\* the body of the candidate-pair loop for a selected pair
WithPair(pair, stats, prevStats) ==
  [pair EXCEPT
     !.id = stats.id,
     !.total = [c \in Counters |->
                  IF c = "totalRoundTripTime" THEN @[c] ELSE stats.counters[c]],
     !.delta = [c \in Counters |-> TabulateStats(prevStats, stats, c)]]

RECURSIVE PairLoop(_, _, _, _, _)
\* the candidate-pair loop from entry i on; sel holds the local and remote
\* candidate ids selected so far
PairLoop(acc, raw, transport, prevStats, i) ==
  IF i > Len(raw) THEN acc
  ELSE IF raw[i].type = "candidate-pair"
            /\ transport.selectedCandidatePairId = raw[i].id
       THEN PairLoop([pair |-> WithPair(acc.pair, raw[i], prevStats),
                      local |-> raw[i].localCandidateId,
                      remote |-> raw[i].remoteCandidateId],
                     raw, transport, prevStats, i + 1)
       ELSE PairLoop(acc, raw, transport, prevStats, i + 1)

\* the attributes written from a candidate entry (id: the entry they are
\* taken from)
FromCandidate(entry) ==
  [id |-> entry.id, ipAddress |-> entry.address.ip,
   portNumber |-> entry.address.port, transport |-> entry.address.protocol,
   priority |-> entry.address.priority,
   candidateType |-> FormatCanTypeFn(entry.candidateType)]

SelectedRemoteAnyId(entry, sel) == entry.type = "remote-candidate"

\* if (raw[prop].type === 'remote-candidate') and
\* if (remoteCandidateStats.id === selectedRemoteCandidateId)
SelectedRemote(entry, sel) ==
  entry.type = "remote-candidate" /\ entry.id = sel.remote

\* if (raw[prop].type === 'local-candidate') and
\* if (localCandidateStats.id === selectedLocalCandidateId)
SelectedLocal(entry, sel) ==
  entry.type = "local-candidate" /\ entry.id = sel.local

WithCandidateUnselected(pair, entry, sel) ==
  IF entry.type = "remote-candidate"
  THEN [pair EXCEPT !.remote = FromCandidate(entry)]
  ELSE IF entry.type = "local-candidate"
       THEN [pair EXCEPT !.local = FromCandidate(entry)]
       ELSE pair

\* the attributes taken from the candidate entry itself
WithCandidate(pair, entry, sel) ==
  IF sel.local = "" \/ sel.remote = "" THEN pair
  ELSE IF SelectedRemote(entry, sel)
       THEN [pair EXCEPT !.remote = FromCandidate(entry)]
       ELSE IF SelectedLocal(entry, sel)
            THEN [pair EXCEPT !.local = FromCandidate(entry)]
            ELSE pair

\* parseSelectedCandidatePair for the entry at position p of raw: the new
\* output.selectedCandidatePair
ParseSelectedCandidatePair(pair, raw, store, p) ==
  IF raw[p].type \notin {"remote-candidate", "local-candidate"} THEN pair
  ELSE LET transport == TransportStats(raw)
           start == [pair |-> pair, local |-> "", remote |-> ""]
           sel == IF transport = <<>> THEN start
                  ELSE PairLoop(start, raw, transport[1],
                                PrevStats(store, raw[p].id), 1)
       IN WithCandidate(sel.pair, raw[p], sel)

RECURSIVE ParseAll(_, _, _, _)
\* the parser is run for every key of the report, in key order
ParseAll(pair, raw, store, p) ==
  IF p > Len(raw) THEN pair
  ELSE ParseAll(ParseSelectedCandidatePair(pair, raw, store, p), raw, store, p + 1)

\* one retrieval of the stats of the peer: the report is parsed against the
\* stored report and then stored
GetStats(raw) ==
  /\ selectedCandidatePair' = ParseAll(BlankPair, raw, stored, 1)
  /\ before' = stored
  /\ stored' = <<raw>>

\* no report retrieved yet
ParserInit ==
  /\ stored = <<>>
  /\ before = <<>>
  /\ selectedCandidatePair = BlankPair

(* ---------------------------------------------------------------------- *)
(* Renegotiation advisor (renegotiateIfNeeded)                             *)
(* ---------------------------------------------------------------------- *)
\* peerConnection.getSenders()
PcSenders == <<"s1", "s2">>

\* the ssrc values the stats reports of a sender can carry: a sender that
\* sends several encodings reports one outbound stream per encoding
SsrcsOf == [s \in {"s1", "s2"} |-> IF s = "s1" THEN {1001, 1002} ELSE {2001}]

\* reslovedResults: for each sender the ssrc values of its reports (none
\* while the sender transmits nothing)
SenderReports == { r \in [{"s1", "s2"} -> SUBSET {1001, 1002, 2001}] :
                     \A s \in {"s1", "s2"} : r[s] \subseteq SsrcsOf[s] }

\* self._currentRTCRTPSenders[peerId]
SavedSenders ==
  {<<>>, <<"s1">>, <<"s2">>, <<"s1", "s2">>, <<"s2", "s1">>}

\* transmittingSenders: ssrc -> the sender whose report carried it, the
\* later sender overwriting an earlier one
TransmittingSenders(reports) ==
  [k \in UNION { reports[PcSenders[i]] : i \in 1..Len(PcSenders) } |->
     LET owners == { i \in 1..Len(PcSenders) : k \in reports[PcSenders[i]] }
     IN PcSenders[CHOOSE i \in owners : \A j \in owners : j <= i]]

\* isRenegoNeeded as the then-callback computes it
IsRenegoNeeded(reports, savedSenders) ==
  LET transmittingSenders == TransmittingSenders(reports)
      transmittingSendersKeys == DOMAIN transmittingSenders
      senderMatchedCount ==
        Cardinality({ tKey \in transmittingSendersKeys :
                        \E sIndex \in 1..Len(savedSenders) :
                          transmittingSenders[tKey] = savedSenders[sIndex] })
  IN IF Cardinality(transmittingSendersKeys) # Len(savedSenders) THEN TRUE
     ELSE senderMatchedCount # Cardinality(transmittingSendersKeys)

\* no call made yet
NoRenegotiation ==
  [phase |-> "idle", reports |-> [s \in {"s1", "s2"} |-> {}],
   savedSenders |-> <<>>, recorded |-> TRUE, isRenegoNeeded |-> FALSE]

AdvisorInit == renegotiation = NoRenegotiation

\* renegotiateIfNeeded(peerId): the promise is created and getStats is called
\* on every sender
RenegotiateIfNeeded(reports, savedSenders) ==
  /\ renegotiation.phase = "idle"
  /\ renegotiation' = [phase |-> "pending", reports |-> reports,
                        savedSenders |-> savedSenders, recorded |-> TRUE,
                        isRenegoNeeded |-> FALSE]

\* renegotiateIfNeeded for a peer self._currentRTCRTPSenders holds no entry
\* of: savedSenders is undefined
RenegotiateUnrecorded(reports) ==
  /\ renegotiation.phase = "idle"
  /\ renegotiation' = [phase |-> "pending", reports |-> reports,
                        savedSenders |-> <<>>, recorded |-> FALSE,
                        isRenegoNeeded |-> FALSE]

\* renegotiateIfNeeded for a peer without a connection:
\* peerConnection.getSenders() throws in the executor, which rejects the
\* promise
RenegotiateWithoutConnection ==
  /\ renegotiation.phase = "idle"
  /\ renegotiation' = [NoRenegotiation EXCEPT !.phase = "rejected"]

\* Promise.all resolves: the then-callback resolves the promise; with
\* savedSenders undefined it throws at savedSenders.length before resolve,
\* and the returned promise stays pending
StatsResolved ==
  /\ renegotiation.phase = "pending"
  /\ renegotiation' =
       IF renegotiation.recorded
       THEN [renegotiation EXCEPT
               !.phase = "resolved",
               !.isRenegoNeeded = IsRenegoNeeded(renegotiation.reports,
                                                 renegotiation.savedSenders)]
       ELSE [renegotiation EXCEPT !.phase = "unsettled"]

\* a getStats promise rejects: Promise.all rejects, nothing handles it and
\* the returned promise stays pending
StatsRejected ==
  /\ renegotiation.phase = "pending"
  /\ renegotiation' = [renegotiation EXCEPT !.phase = "unsettled"]

(* ---------------------------------------------------------------------- *)
(* The room: joinRoom, leaveRoom and _waitForOpenChannel                   *)
(* ---------------------------------------------------------------------- *)
MaxJoins == 1
MaxLeaves == 1

\* the remote peers a room may hold
RoomPeers == {"p1", "p2"}

\* if (current50Block === 600)
PollLimit == 600

NoOptions == [manualGetUserMedia |-> FALSE, media |-> FALSE]

\* the joinRoom call has ended, or none was made
JoinSettled == {"idle", "failed", "joined", "timedOut"}

RoomRan(fn, outcome) == [fn |-> fn, outcome |-> outcome]

\* no _removePeer call
NoRemovals == [p \in RoomPeers |-> 0]

\* the user is in a room or not, peers may be known in either map, and the
\* channel of a user in a room is open
RoomInit ==
  /\ inRoom \in BOOLEAN
  /\ channelOpen \in BOOLEAN
  /\ inRoom => channelOpen
  /\ channelClosing = FALSE
  /\ peerInformations \in SUBSET RoomPeers
  /\ knownConnections \in SUBSET RoomPeers
  /\ leaveWaits = <<>>
  /\ joinPhase = "idle"
  /\ joinOptions = NoOptions
  /\ current50Block = 0
  /\ userMediaStream = FALSE
  /\ joinCallbacks = <<>>
  /\ removals = NoRemovals
  /\ emitted = <<>>
  /\ roomCalls = [join |-> MaxJoins, leave |-> MaxLeaves]
  /\ roomLast = RoomRan("none", "none")

\* no room operation is made
RoomIdle ==
  /\ inRoom = FALSE
  /\ channelOpen = FALSE
  /\ channelClosing = FALSE
  /\ peerInformations = {}
  /\ knownConnections = {}
  /\ leaveWaits = <<>>
  /\ joinPhase = "idle"
  /\ joinOptions = NoOptions
  /\ current50Block = 0
  /\ userMediaStream = FALSE
  /\ joinCallbacks = <<>>
  /\ removals = NoRemovals
  /\ emitted = <<>>
  /\ roomCalls = [join |-> 0, leave |-> 0]
  /\ roomLast = RoomRan("none", "none")

\* if (peersThatLeft.indexOf(connPeerId) === -1), peersThatLeft holding the
\* keys of _peerInformations when the second loop runs
SecondLoopRemoves(p) == p \notin peerInformations

\* the _removePeer calls of the two loops of leaveRoom for a peer
RemovePeerCalls(p) ==
  (IF p \in peerInformations THEN 1 ELSE 0)
  + (IF p \in knownConnections /\ SecondLoopRemoves(p) THEN 1 ELSE 0)

\* if (isNotInRoom) { ... callback(new Error(notInRoomError), null); return; }
AbortsNever(isNotInRoom) == FALSE

Aborts(isNotInRoom) == isNotInRoom

\* if (typeof callback === 'function') callback(...)
Callback(cb, outcome) == IF cb = "none" THEN <<>> ELSE <<outcome>>

\* the condition of the _wait of leaveRoom: return !self._channelOpen
LeaveWaitOverAlways == TRUE

LeaveWaitOver == ~channelOpen

\* joinRoomFn: _initSelectedRoom is called and its answer awaited
JoinRoomFn == joinPhase' = "initRoom"

\* leaveRoom(stopMediaOptions, callback) up to its return: both loops,
\* _inRoom = false, _closeChannel(), then the abort or the _wait; cb is the
\* callback: the user's, none, or the continuation joinRoom passes
LeaveRoomCall(cb) ==
  LET isNotInRoom == ~inRoom IN
  /\ removals' = [p \in RoomPeers |-> RemovePeerCalls(p)]
  /\ peerInformations' = {}
  /\ knownConnections' = {}
  /\ inRoom' = FALSE
  /\ channelClosing' = channelOpen
  /\ IF Aborts(isNotInRoom)
     THEN /\ emitted' = Callback(cb, "leaveRoom error")
          /\ IF cb = "join" THEN JoinRoomFn ELSE UNCHANGED joinPhase
          /\ roomLast' = RoomRan("leaveRoom", "notInRoom")
          /\ UNCHANGED leaveWaits
     ELSE /\ leaveWaits' = Append(leaveWaits, cb)
          /\ IF cb = "join" THEN joinPhase' = "leaving" ELSE UNCHANGED joinPhase
          /\ roomLast' = RoomRan("leaveRoom", "waiting")
          /\ emitted' = <<>>
  /\ UNCHANGED channelOpen

\* the user calls leaveRoom
LeaveRoom(cb) ==
  /\ roomCalls.leave > 0
  /\ roomCalls' = [roomCalls EXCEPT !.leave = @ - 1]
  /\ LeaveRoomCall(cb)
  /\ UNCHANGED <<joinOptions, current50Block, userMediaStream, joinCallbacks>>

\* the channel reports its closing
ChannelClosed ==
  /\ channelClosing
  /\ channelOpen' = FALSE
  /\ channelClosing' = FALSE
  /\ removals' = NoRemovals
  /\ emitted' = <<>>
  /\ roomLast' = RoomRan("channelClose", "closed")
  /\ UNCHANGED <<inRoom, peerInformations, knownConnections, leaveWaits,
                 joinPhase, joinOptions, current50Block, userMediaStream,
                 joinCallbacks, roomCalls>>

\* the _wait of leaveRoom fires: 'peerLeft' for the user, then the callback
LeaveWaitDone(i) ==
  /\ i \in 1..Len(leaveWaits)
  /\ LeaveWaitOver
  /\ leaveWaits' = RemoveAt(leaveWaits, i)
  /\ emitted' = <<"peerLeft">> \o Callback(leaveWaits[i], "leaveRoom success")
  /\ IF leaveWaits[i] = "join" THEN JoinRoomFn ELSE UNCHANGED joinPhase
  /\ removals' = NoRemovals
  /\ roomLast' = RoomRan("leaveWait", leaveWaits[i])
  /\ UNCHANGED <<inRoom, channelOpen, channelClosing, peerInformations,
                 knownConnections, joinOptions, current50Block,
                 userMediaStream, joinCallbacks, roomCalls>>

\* if (self._inRoom) { self.leaveRoom(stopStream, function () { joinRoomFn(); }) }
LeavesFirstNever == FALSE

LeavesFirst == inRoom

\* joinRoom(room, mediaOptions, callback): the validation of the arguments,
\* then leaveRoom when the user is in a room, joinRoomFn otherwise
JoinRoom(validRoom, validOptions, options) ==
  /\ roomCalls.join > 0
  /\ joinPhase \in JoinSettled
  /\ roomCalls' = [roomCalls EXCEPT !.join = @ - 1]
  /\ joinOptions' = options
  /\ current50Block' = 0
  /\ UNCHANGED userMediaStream
  /\ IF ~validRoom \/ ~validOptions
     THEN /\ joinCallbacks' = <<"error">>
          /\ emitted' = <<"joinRoom error">>
          /\ joinPhase' = "failed"
          /\ removals' = NoRemovals
          /\ roomLast' = RoomRan("joinRoom", "invalid")
          /\ UNCHANGED <<inRoom, channelOpen, channelClosing, peerInformations,
                         knownConnections, leaveWaits>>
     ELSE /\ joinCallbacks' = <<>>
          /\ IF LeavesFirst
             THEN LeaveRoomCall("join")
             ELSE /\ JoinRoomFn
                  /\ removals' = NoRemovals
                  /\ emitted' = <<>>
                  /\ roomLast' = RoomRan("joinRoom", "joinRoomFn")
                  /\ UNCHANGED <<inRoom, channelOpen, channelClosing,
                                 peerInformations, knownConnections,
                                 leaveWaits>>

\* resolveAsErrorFn
ResolveAsError ==
  /\ joinCallbacks' = Append(joinCallbacks, "error")
  /\ emitted' = <<"joinRoom error">>
  /\ joinPhase' = "failed"

\* the callback joinRoomFn hands to _waitForOpenChannel: an error ends the
\* call, otherwise 'peerJoined' is awaited and JOIN_ROOM is sent
WaitForOpenChannelResult(error) ==
  IF error
  THEN ResolveAsError
  ELSE /\ emitted' = <<"JOIN_ROOM">>
       /\ joinPhase' = "joining"
       /\ UNCHANGED joinCallbacks

\* the callback of the _condition on 'channelOpen' in _waitForOpenChannel
OnChannelOpen ==
  IF joinOptions.manualGetUserMedia
  THEN /\ joinPhase' = "polling"
       /\ current50Block' = 0
       /\ emitted' = <<"mediaAccessRequired">>
       /\ UNCHANGED joinCallbacks
  ELSE IF joinOptions.media
  THEN /\ joinPhase' = "getUserMedia"
       /\ emitted' = <<>>
       /\ UNCHANGED <<current50Block, joinCallbacks>>
  ELSE /\ WaitForOpenChannelResult(FALSE)
       /\ UNCHANGED current50Block

\* _initSelectedRoom answers with an error
InitRoomError ==
  /\ joinPhase = "initRoom"
  /\ ResolveAsError
  /\ removals' = NoRemovals
  /\ roomLast' = RoomRan("initSelectedRoom", "error")
  /\ UNCHANGED <<inRoom, channelOpen, channelClosing, peerInformations,
                 knownConnections, leaveWaits, joinOptions, current50Block,
                 userMediaStream, roomCalls>>

\* _initSelectedRoom answers: _waitForOpenChannel opens the channel unless it
\* is open
InitRoomDone ==
  /\ joinPhase = "initRoom"
  /\ IF channelOpen
     THEN OnChannelOpen
     ELSE /\ joinPhase' = "opening"
          /\ emitted' = <<>>
          /\ UNCHANGED <<current50Block, joinCallbacks>>
  /\ removals' = NoRemovals
  /\ roomLast' = RoomRan("initSelectedRoom", "done")
  /\ UNCHANGED <<inRoom, channelOpen, channelClosing, peerInformations,
                 knownConnections, leaveWaits, joinOptions, userMediaStream,
                 roomCalls>>

\* the channel _openChannel asked for reports 'channelOpen'
ChannelOpened ==
  /\ joinPhase = "opening"
  /\ channelOpen' = TRUE
  /\ OnChannelOpen
  /\ removals' = NoRemovals
  /\ roomLast' = RoomRan("channelOpen", "open")
  /\ UNCHANGED <<inRoom, channelClosing, peerInformations, knownConnections,
                 leaveWaits, joinOptions, userMediaStream, roomCalls>>

\* one poll of the _wait for the stream of the user, every 50 ms; after the
\* 600th the _wait fires with mediaAccessRequiredFailure set and calls
\* _onUserMediaError, which triggers 'mediaAccessError'
Poll ==
  /\ joinPhase = "polling"
  /\ current50Block' = current50Block + 1
  /\ IF current50Block + 1 = PollLimit
     THEN /\ joinPhase' = "timedOut"
          /\ emitted' = <<"mediaAccessError">>
          /\ roomLast' = RoomRan("poll", "timeout")
          /\ UNCHANGED joinCallbacks
     ELSE IF userMediaStream
     THEN /\ WaitForOpenChannelResult(FALSE)
          /\ roomLast' = RoomRan("poll", "stream")
     ELSE /\ roomLast' = RoomRan("poll", "again")
          /\ emitted' = <<>>
          /\ UNCHANGED <<joinPhase, joinCallbacks>>
  /\ removals' = NoRemovals
  /\ UNCHANGED <<inRoom, channelOpen, channelClosing, peerInformations,
                 knownConnections, leaveWaits, joinOptions, userMediaStream,
                 roomCalls>>

\* the application retrieves the stream while joinRoom polls for it
StreamRetrieved ==
  /\ joinPhase = "polling"
  /\ ~userMediaStream
  /\ userMediaStream' = TRUE
  /\ removals' = NoRemovals
  /\ emitted' = <<>>
  /\ roomLast' = RoomRan("getUserMedia", "manual")
  /\ UNCHANGED <<inRoom, channelOpen, channelClosing, peerInformations,
                 knownConnections, leaveWaits, joinPhase, joinOptions,
                 current50Block, joinCallbacks, roomCalls>>

\* the callback of the getUserMedia call of _waitForOpenChannel
GetUserMediaDone(error) ==
  /\ joinPhase = "getUserMedia"
  /\ WaitForOpenChannelResult(error)
  /\ userMediaStream' = (userMediaStream \/ ~error)
  /\ removals' = NoRemovals
  /\ roomLast' = RoomRan("getUserMedia", IF error THEN "error" ELSE "stream")
  /\ UNCHANGED <<inRoom, channelOpen, channelClosing, peerInformations,
                 knownConnections, leaveWaits, joinOptions, current50Block,
                 roomCalls>>

\* 'peerJoined' of the user for the selected room arrives over the channel
PeerJoinedSelf ==
  /\ joinPhase = "joining"
  /\ channelOpen
  /\ inRoom' = TRUE
  /\ joinCallbacks' = Append(joinCallbacks, "success")
  /\ emitted' = <<"joinRoom success">>
  /\ joinPhase' = "joined"
  /\ removals' = NoRemovals
  /\ roomLast' = RoomRan("peerJoined", "self")
  /\ UNCHANGED <<channelOpen, channelClosing, peerInformations,
                 knownConnections, leaveWaits, joinOptions, current50Block,
                 userMediaStream, roomCalls>>

\* the negotiation engine runs with the monitor idle: no Chrome 75 closure,
\* no signal
MonitorIdle ==
  /\ setup = [handler |-> OnIceHandler, browser |-> "chrome", hasMCU |-> FALSE,
              bandwidthAdjuster |-> NoAdjuster, agent |-> "chrome"]
  /\ MonitorInit
  /\ signalsLeft = [e \in Endpoints |-> 0]
  /\ installsLeft = [e \in Endpoints |-> 0]

Next ==
  \/ \E e \in Endpoints : DoOffer(e) /\ UNCHANGED <<monVars, parserVars, advisorVars, roomVars>>
  \/ \E e \in Endpoints : DoAnswer(e) /\ UNCHANGED <<monVars, parserVars, advisorVars, roomVars>>
  \/ \E e \in Endpoints : \E i \in 1..Len(pending[e]) : CreateOfferSuccess(e, i) /\ UNCHANGED <<monVars, parserVars, advisorVars, roomVars>>
  \/ \E e \in Endpoints : \E i \in 1..Len(pending[e]) : CreateAnswerSuccess(e, i) /\ UNCHANGED <<monVars, parserVars, advisorVars, roomVars>>
  \/ \E e \in Endpoints : \E i \in 1..Len(pending[e]) : CreateError(e, i) /\ UNCHANGED <<monVars, parserVars, advisorVars, roomVars>>
  \/ \E e \in Endpoints : \E i \in 1..Len(pending[e]) : SetLocalSuccess(e, i) /\ UNCHANGED <<monVars, parserVars, advisorVars, roomVars>>
  \/ \E e \in Endpoints : \E i \in 1..Len(pending[e]) : SetLocalError(e, i) /\ UNCHANGED <<monVars, parserVars, advisorVars, roomVars>>
  \/ \E e \in Endpoints : GatheringComplete(e) /\ UNCHANGED <<monVars, parserVars, advisorVars, roomVars>>
  \/ \E e \in Endpoints : ReceiveOffer(e) /\ UNCHANGED <<monVars, parserVars, advisorVars, roomVars>>
  \/ \E e \in Endpoints : ApplyBufferedOffer(e) /\ UNCHANGED <<monVars, parserVars, advisorVars, roomVars>>
  \/ \E e \in Endpoints : ReceiveAnswer(e) /\ UNCHANGED <<monVars, parserVars, advisorVars, roomVars>>
  \/ \E e \in Endpoints : RemovePeer(e) /\ UNCHANGED <<monVars, parserVars, advisorVars, roomVars>>

\* the negotiation engine starts with the monitor and the parser at rest
InitNegotiation == Init /\ MonitorIdle /\ ParserInit /\ AdvisorInit /\ RoomIdle

Spec == InitNegotiation /\ [][Next]_vars

(* ---------------------------------------------------------------------- *)
(* The monitor of one session, with the negotiation engine at rest         *)
(* ---------------------------------------------------------------------- *)
InitMonitor ==
  /\ Init
  /\ ~disableBundle
  /\ setup \in Setups
  /\ MonitorInit
  /\ signalsLeft = [e \in Endpoints |-> IF e \in Monitored THEN MaxSignals ELSE 0]
  /\ installsLeft = [e \in Endpoints |-> IF e \in Monitored THEN MaxInstalls ELSE 0]
  /\ ParserInit
  /\ AdvisorInit
  /\ RoomIdle

NextMonitor ==
  \/ \E e \in Monitored : \E raw \in RawStates(setup) : OnIceConnectionStateChange(e, raw) /\ UNCHANGED <<parserVars, advisorVars, roomVars>>
  \/ \E e \in Monitored : DelayedClosed(e) /\ UNCHANGED <<parserVars, advisorVars, roomVars>>
  \/ \E e \in Monitored : MarkIceConnectionStateClosed(e) /\ UNCHANGED <<parserVars, advisorVars, roomVars>>
  \/ \E e \in Monitored : InstallHandler(e) /\ UNCHANGED <<parserVars, advisorVars, roomVars>>
  \/ \E e \in Monitored : \E raw \in RawStates(setup) : OnStateChange(e, raw) /\ UNCHANGED <<parserVars, advisorVars, roomVars>>
  \/ \E e \in Monitored : \E own \in BOOLEAN : BackfillDone(e, own) /\ UNCHANGED <<parserVars, advisorVars, roomVars>>
  \/ \E e \in Monitored : BackfillRejected(e) /\ UNCHANGED <<parserVars, advisorVars, roomVars>>
  \/ \E e \in Monitored : StatsTick(e) /\ UNCHANGED <<parserVars, advisorVars, roomVars>>
  \/ \E e \in Monitored : PullTick(e) /\ UNCHANGED <<parserVars, advisorVars, roomVars>>
  \/ \E e \in Monitored : \E r \in RetrieveOutcomes : PullResult(e, r) /\ UNCHANGED <<parserVars, advisorVars, roomVars>>
  \/ \E e \in Monitored : RemoveMonitored(e) /\ UNCHANGED <<parserVars, advisorVars, roomVars>>

SpecMonitor == InitMonitor /\ [][NextMonitor]_allVars

\* setInterval keeps firing its callback while the interval is armed
FairSpecMonitor ==
  /\ SpecMonitor
  /\ \A e \in Monitored :
       /\ WF_allVars(StatsTick(e) /\ UNCHANGED <<parserVars, advisorVars, roomVars>>)
       /\ WF_allVars(PullTick(e) /\ UNCHANGED <<parserVars, advisorVars, roomVars>>)

(* ---------------------------------------------------------------------- *)
(* The bandwidth adjuster of transport.onstatechange, two peers            *)
(* ---------------------------------------------------------------------- *)
\* what the transports report in these runs: a state that starts the
\* adjuster and one that does not
AdjusterRawStates == {CONNECTED, FAILED}

\* Chrome 75 sessions without MCU whose remote peers announce a chrome agent;
\* the local description of each peer is set once, so each peer installs one
\* closure, and its transport reports AdjusterSignals states
InitAdjuster ==
  /\ Init
  /\ enableIceTrickle
  /\ ~disableBundle
  /\ setup \in { [handler |-> OnStateHandler, browser |-> "chrome",
                   hasMCU |-> FALSE, bandwidthAdjuster |-> a,
                   agent |-> "chrome"] : a \in WindowAdjusters }
  /\ MonitorInit
  /\ signalsLeft = [e \in Endpoints |-> AdjusterSignals]
  /\ installsLeft = [e \in Endpoints |-> 1]
  /\ ParserInit
  /\ AdvisorInit
  /\ RoomIdle

NextAdjuster ==
  \/ \E e \in Endpoints : InstallHandler(e) /\ UNCHANGED <<parserVars, advisorVars, roomVars>>
  \/ \E e \in Endpoints : \E raw \in AdjusterRawStates : OnStateChange(e, raw) /\ UNCHANGED <<parserVars, advisorVars, roomVars>>
  \/ \E e \in Endpoints : PullTick(e) /\ UNCHANGED <<parserVars, advisorVars, roomVars>>
  \/ \E e \in Endpoints : \E r \in RetrieveOutcomes : PullResult(e, r) /\ UNCHANGED <<parserVars, advisorVars, roomVars>>
  \/ \E e \in Removable : RemoveMonitored(e) /\ UNCHANGED <<parserVars, advisorVars, roomVars>>

SpecAdjuster == InitAdjuster /\ [][NextAdjuster]_allVars

(* ---------------------------------------------------------------------- *)
(* The parser over the reports of one peer, everything else at rest        *)
(* ---------------------------------------------------------------------- *)
InitParser ==
  /\ Init
  /\ enableIceTrickle
  /\ ~disableBundle
  /\ MonitorIdle
  /\ ParserInit
  /\ AdvisorInit
  /\ RoomIdle

NextParser ==
  \E raw \in Reports : GetStats(raw) /\ UNCHANGED <<vars, monVars, advisorVars, roomVars>>

SpecParser == InitParser /\ [][NextParser]_allVars

(* ---------------------------------------------------------------------- *)
(* The candidate types of the selected pair, over the labels of a report   *)
(* ---------------------------------------------------------------------- *)
\* the first retrieval of a peer, its candidates carrying any two labels
NextCanType ==
  \E localType \in Labels : \E remoteType \in Labels :
    /\ stored = <<>>
    /\ GetStats(ReportWith(localType, remoteType))
    /\ UNCHANGED <<vars, monVars, advisorVars, roomVars>>

SpecCanType == InitParser /\ [][NextCanType]_allVars

(* ---------------------------------------------------------------------- *)
(* The candidates of a session with two pairs                              *)
(* ---------------------------------------------------------------------- *)
\* the first retrieval of a peer of such a session
NextCandidates ==
  \E raw \in CandidateReports :
    /\ stored = <<>>
    /\ GetStats(raw)
    /\ UNCHANGED <<vars, monVars, advisorVars, roomVars>>

SpecCandidates == InitParser /\ [][NextCandidates]_allVars

(* ---------------------------------------------------------------------- *)
(* One renegotiateIfNeeded call, everything else at rest                   *)
(* ---------------------------------------------------------------------- *)
NextAdvisor ==
  \/ \E reports \in SenderReports : \E savedSenders \in SavedSenders :
       RenegotiateIfNeeded(reports, savedSenders) /\ UNCHANGED <<vars, monVars, parserVars, roomVars>>
  \/ \E reports \in SenderReports :
       RenegotiateUnrecorded(reports) /\ UNCHANGED <<vars, monVars, parserVars, roomVars>>
  \/ RenegotiateWithoutConnection /\ UNCHANGED <<vars, monVars, parserVars, roomVars>>
  \/ StatsResolved /\ UNCHANGED <<vars, monVars, parserVars, roomVars>>
  \/ StatsRejected /\ UNCHANGED <<vars, monVars, parserVars, roomVars>>

SpecAdvisor == InitParser /\ [][NextAdvisor]_allVars

\* every getStats promise of the senders settles: Promise.all resolves or
\* rejects
FairSpecAdvisor ==
  /\ SpecAdvisor
  /\ WF_allVars((StatsResolved \/ StatsRejected)
                  /\ UNCHANGED <<vars, monVars, parserVars, roomVars>>)


(* ---------------------------------------------------------------------- *)
(* The room operations of the user, everything else at rest                *)
(* ---------------------------------------------------------------------- *)
MediaOptions ==
  [manualGetUserMedia : BOOLEAN, media : BOOLEAN]

InitRoom ==
  /\ Init
  /\ enableIceTrickle
  /\ ~disableBundle
  /\ MonitorIdle
  /\ ParserInit
  /\ AdvisorInit
  /\ RoomInit

NextRoom ==
  \/ \E validRoom \in BOOLEAN : \E validOptions \in BOOLEAN :
       \E options \in MediaOptions :
         JoinRoom(validRoom, validOptions, options) /\ UNCHANGED <<vars, monVars, parserVars, advisorVars>>
  \/ \E cb \in {"user", "none"} : LeaveRoom(cb) /\ UNCHANGED <<vars, monVars, parserVars, advisorVars>>
  \/ ChannelClosed /\ UNCHANGED <<vars, monVars, parserVars, advisorVars>>
  \/ \E i \in 1..Len(leaveWaits) : LeaveWaitDone(i) /\ UNCHANGED <<vars, monVars, parserVars, advisorVars>>
  \/ InitRoomError /\ UNCHANGED <<vars, monVars, parserVars, advisorVars>>
  \/ InitRoomDone /\ UNCHANGED <<vars, monVars, parserVars, advisorVars>>
  \/ ChannelOpened /\ UNCHANGED <<vars, monVars, parserVars, advisorVars>>
  \/ Poll /\ UNCHANGED <<vars, monVars, parserVars, advisorVars>>
  \/ StreamRetrieved /\ UNCHANGED <<vars, monVars, parserVars, advisorVars>>
  \/ \E error \in BOOLEAN : GetUserMediaDone(error) /\ UNCHANGED <<vars, monVars, parserVars, advisorVars>>
  \/ PeerJoinedSelf /\ UNCHANGED <<vars, monVars, parserVars, advisorVars>>

SpecRoom == InitRoom /\ [][NextRoom]_allVars

(* ---------------------------------------------------------------------- *)
(* Properties                                                              *)
(* ---------------------------------------------------------------------- *)
Calls(e) == 1..Len(pending[e])

CreateOfferCall == [op |-> "createOffer", sd |-> NoDesc]
CreateAnswerCall == [op |-> "createAnswer", sd |-> NoDesc]

\* the outstanding pc.setLocalDescription calls of an endpoint
SetLocalCalls(pend) == {i \in 1..Len(pend) : pend[i].op = "setLocalDescription"}

\* e passes a message to the signaling channel in this step
Transmits(e) == Len(channel'[Other(e)]) > Len(channel[Other(e)])
Transmitted(e) == channel'[Other(e)][Len(channel'[Other(e)])]

\* C1: _doOffer calls the transport's createOffer iff the peer has a
\* connection whose signalingState is "stable"; every other invocation leaves
\* signalingState, processingLocalSDP, sdpConstraints and the outstanding
\* transport calls as they were.
C1_DoOfferIffStable ==
  [][\A e \in Endpoints : DoOffer(e) =>
       IF peerConnections[e] /\ signalingState[e] = STABLE
       THEN pending'[e] = Append(pending[e], CreateOfferCall)
       ELSE UNCHANGED <<signalingState, processingLocalSDP, sdpConstraints,
                        pending>>]_vars

C1_Witness ==
  /\ last.fn = "doOffer"
  /\ last.outcome = "dropped_state"
  /\ signalingState[last.ep] \in {HAVE_LOCAL_OFFER, HAVE_REMOTE_OFFER}

\* C2: _doAnswer calls the transport's createAnswer iff the peer has a
\* connection whose signalingState is "have-remote-offer"; in every other
\* state, and without a connection, nothing changes and no call is made.
C2_DoAnswerIffHaveRemoteOffer ==
  [][\A e \in Endpoints : DoAnswer(e) =>
       IF peerConnections[e] /\ signalingState[e] = HAVE_REMOTE_OFFER
       THEN pending'[e] = Append(pending[e], CreateAnswerCall)
       ELSE UNCHANGED <<signalingState, processingLocalSDP, sdpConstraints,
                        pending>>]_vars

C2_Witness ==
  /\ last.fn = "doAnswer"
  /\ last.outcome = "dropped_state"
  /\ signalingState[last.ep] = HAVE_LOCAL_OFFER

\* C3: at most one pc.setLocalDescription call of a peer is outstanding, and
\* a local description that arrives while processingLocalSDP is true changes
\* nothing: it is not applied, not buffered, not sent, and the outstanding
\* call of the first description stays as it is.
C3_OneLocalDescriptionInFlight ==
  [][\A e \in Endpoints :
       /\ Cardinality(SetLocalCalls(pending'[e])) <= 1
       /\ \A i \in Calls(e) :
            (processingLocalSDP[e]
               /\ (CreateOfferSuccess(e, i) \/ CreateAnswerSuccess(e, i)))
            => /\ pending'[e] = RemoveAt(pending[e], i)
               /\ UNCHANGED <<processingLocalSDP, bufferedLocalOffer,
                              localDescription, signalingState, channel,
                              haltedSend>>]_vars

C3_Witness ==
  /\ last.outcome = "TypeError_processing"
  /\ processingLocalSDP[last.ep]

\* the five cases in which _setLocalAndSendMessage rejects a description
RejectCase(e, sd) ==
  \/ sd.sdp = <<>>
  \/ ~peerConnections[e]
  \/ sd.type = OFFER /\ signalingState[e] # STABLE
  \/ sd.type = ANSWER /\ signalingState[e] # HAVE_REMOTE_OFFER
  \/ processingLocalSDP[e]

\* C4: in each of the five rejection cases processingLocalSDP and the
\* buffered local offer keep their values, no setLocalDescription call is
\* made and nothing is sent to the remote endpoint.
C4_RejectionChangesNothing ==
  [][\A e \in Endpoints : \A i \in Calls(e) : \A body \in CreatedBodies :
       (\/ CreatedOffer(e, i, body) /\ RejectCase(e, Desc(OFFER, body))
        \/ CreatedAnswer(e, i, body) /\ RejectCase(e, Desc(ANSWER, body)))
       => /\ pending'[e] = RemoveAt(pending[e], i)
          /\ UNCHANGED <<processingLocalSDP, bufferedLocalOffer,
                         localDescription, channel>>]_vars

C4_Witness ==
  /\ last.fn = "setLocalAnswer"
  /\ last.outcome = "dropped_answer"
  /\ peerConnections[last.ep]

C6_SetLocalErrorReleases ==
  [][\A e \in Endpoints : \A i \in Calls(e) : SetLocalError(e, i) =>
       /\ ~processingLocalSDP'[e]
       /\ triggered' = <<Trigger(e, ERROR)>>
       /\ channel' = channel
       /\ \A sd \in {Desc(OFFER, <<MediaLine>>), Desc(ANSWER, <<MediaLine>>)} :
            Reject(e, sd)' # "TypeError_processing"]_vars

C6_Witness ==
  /\ last.fn = "setLocalError"
  /\ ~processingLocalSDP[last.ep]
  /\ triggered = <<Trigger(last.ep, ERROR)>>

\* C7: _setLocalAndSendMessage never raises an exception: a description that
\* arrives for a removed peer, or while another one is processing, is dropped
\* and the call returns normally.
C7_DropsWithoutException ==
  last.fn \in {"setLocalOffer", "setLocalAnswer"}
    => last.outcome \notin {"TypeError_no_connection", "TypeError_processing"}

C9_NonTrickleSendsAfterGathering ==
  ~enableIceTrickle =>
    \A e \in Endpoints :
      /\ channel[Other(e)] # <<>> => gathered[e]
      /\ haltedSend[e] # NoDesc => ~gathered[e]

C9_Witness ==
  /\ ~enableIceTrickle
  /\ last.fn = "gatheringComplete"
  /\ last.outcome = "flushed"
  /\ channel[Other(last.ep)] # <<>>

(* ---------------------------------------------------------------------- *)
(* Properties of the connectivity monitor                                  *)
(* ---------------------------------------------------------------------- *)
\* the canonical connectivity state of a session
CanonicalState(e) == Canonical(setup, iceConnectionState[e])

\* C11: after every connectivity signal processed for a peer, on every
\* transport implementation, the connected flag is true iff the canonical
\* state is CONNECTED or COMPLETED (so it is false after CLOSED, FAILED and
\* DISCONNECTED).
C11_ConnectedIffCanonical ==
  \A e \in Monitored :
    connected[e] <=> CanonicalState(e) \in {CONNECTED, COMPLETED}

\* C12 as stated: every FAILED emission is followed by a TRICKLE_FAILED
\* emission for the same peer, and TRICKLE_FAILED is emitted for no other
\* state and never before the primary FAILED.
C12_FailedThenTrickleFailed ==
  \A i \in 1..Len(dispatched) :
    /\ dispatched[i].state = FAILED =>
         /\ i < Len(dispatched)
         /\ dispatched[i + 1] = Event(dispatched[i].peerId, TRICKLE_FAILED)
    /\ dispatched[i].state = TRICKLE_FAILED =>
         /\ i > 1
         /\ dispatched[i - 1] = Event(dispatched[i].peerId, FAILED)

\* C12 (amended): TRICKLE_FAILED is emitted only directly after the primary
\* FAILED of the same peer; oniceconnectionstatechange emits it after every
\* FAILED, transport.onstatechange only while ICE trickle is enabled.
C12_TrickleFailedOnlyAfterFailed ==
  /\ \A i \in 1..Len(dispatched) :
       /\ dispatched[i].state = FAILED =>
            ( (setup.handler = OnIceHandler \/ enableIceTrickle)
                <=> /\ i < Len(dispatched)
                    /\ dispatched[i + 1] = Event(dispatched[i].peerId, TRICKLE_FAILED) )
       /\ dispatched[i].state = TRICKLE_FAILED =>
            /\ i > 1
            /\ dispatched[i - 1] = Event(dispatched[i].peerId, FAILED)
  /\ \A e \in Monitored :
       last.fn \in {OnIceHandler, OnStateHandler} /\ last.ep = e
         /\ last.outcome = "dispatched" /\ CanonicalState(e) # FAILED
       => TRICKLE_FAILED \notin {dispatched[i].state : i \in 1..Len(dispatched)}

C12_Witness ==
  /\ setup.handler = OnStateHandler
  /\ ~enableIceTrickle
  /\ dispatched = <<Event("A", FAILED)>>

\* C13 as stated: the CLOSED signals that arrive within one debounce window
\* of a peer yield one CLOSED emission.
C13_OneClosedPerWindow ==
  \A e \in Monitored : closedInWindow[e] <= 1

\* C14 as stated: emissions are in the order of the raw signals, so no
\* signal's emission is dispatched while the emission of an earlier signal
\* is still deferred.
C14_EmissionsInArrivalOrder ==
  \A e \in Monitored :
    last = Ran(OnIceHandler, e, "dispatched") => closedTimeouts[e] = 0

\* C14 (amended): a signal that is not a deferred CLOSED is emitted in the
\* step that processes it, its canonical state first; a CLOSED signal on
\* AppleWebKit is never emitted in that step but only by its timeout, which
\* emits nothing else.
C14_SynchronousUnlessDeferred ==
  \A e \in Monitored :
    /\ last.fn \in {OnIceHandler, OnStateHandler} /\ last.ep = e
         /\ last.outcome = "dispatched"
       => /\ dispatched # <<>>
          /\ dispatched[1] = Event(e, CanonicalState(e))
          /\ ~(DetectedType(setup.browser) = "AppleWebKit"
                 /\ CanonicalState(e) = CLOSED)
    /\ last = Ran(OnIceHandler, e, "deferred")
       => dispatched = <<>> /\ closedTimeouts[e] > 0
    /\ last.fn = "setTimeout" /\ last.ep = e
       => dispatched \in {<<>>, <<Event(e, CLOSED)>>}

C14_Witness ==
  /\ last = Ran(OnIceHandler, "A", "dispatched")
  /\ closedTimeouts["A"] > 0

\* C15 as stated: at most one periodic stats interval is ever created for a
\* peer, whatever the signals and renegotiations.
C15_AtMostOneStatsInterval ==
  \A e \in Monitored : intervalsCreated[e] <= 1

\* C16: once the signaling state of a peer is CLOSED no tick of its stats
\* interval issues a bandwidth-stats pull, and under fair ticking every
\* interval of the peer is eventually cleared, also an interval that the
\* initial retrieval creates after the closure.
C16_SamplerStopsWhenClosed ==
  /\ [](\A e \in Monitored :
          last = Ran("statsInterval", e, "pull") => signalingState[e] # CLOSED)
  /\ \A e \in Monitored :
       (signalingState[e] = CLOSED) ~> (statsIntervals[e] = 0)

C16_Witness ==
  /\ signalingState["A"] = CLOSED
  /\ last = Ran("getConnectionStatus", "A", "interval")
  /\ statsIntervals["A"] > 0

\* C17 as stated: in the state right after the removal of a peer its
\* negotiation state is CLOSED and neither its stats interval nor its
\* adjuster interval is armed.
C17_NoTimerArmedAfterRemoval ==
  \A e \in Monitored :
    last = Ran("removePeer", e, "none")
    => /\ signalingState[e] = CLOSED
       /\ statsIntervals[e] = 0
       /\ pullIntervals[e] = 0

\* C17 (amended): the removal of a peer moves its negotiation state to
\* CLOSED and leaves its timers armed; after the removal every tick of a
\* timer clears that timer without pulling, and a stats result clears the
\* adjuster timer, pushes no sample and issues no adjustment.
C17_TimersStopAtNextTick ==
  [][\A e \in Monitored :
       /\ RemoveMonitored(e)
          => /\ signalingState'[e] = CLOSED
             /\ statsIntervals'[e] = statsIntervals[e]
             /\ pullIntervals'[e] = pullIntervals[e]
       /\ ~peerConnections[e] /\ StatsTick(e)
          => /\ statsIntervals'[e] = statsIntervals[e] - 1
             /\ last' = Ran("statsInterval", e, "cleared")
       /\ ~peerConnections[e] /\ PullTick(e)
          => /\ pullIntervals'[e] = pullIntervals[e] - 1
             /\ retrieving' = retrieving
       /\ ~peerConnections[e] /\ (\E r \in RetrieveOutcomes : PullResult(e, r))
          => /\ pullIntervals'[e] = 0
             /\ bandwidth' = bandwidth
             /\ refreshConnectionCalls' = <<>>
    ]_allVars

C17_Witness ==
  /\ last = Ran("removePeer", "A", "none")
  /\ statsIntervals["A"] > 0
  /\ pullIntervals["A"] > 0

\* C18 as stated: a stats result that arrives after the removal of its peer
\* is discarded: no sample pushed, no adjustment issued, and no window
\* samples of the peer are left afterwards.
C18_LateResultDiscarded ==
  \A e \in Monitored :
    last.fn = "retrieveStats" /\ last.ep = e /\ ~peerConnections[e]
    => /\ last.outcome = "cleared"
       /\ refreshConnectionCalls = <<>>
       /\ bandwidth \in {<<>>, <<EmptyWindow>>}

(* ---------------------------------------------------------------------- *)
(* Properties of the bandwidth adjuster                                    *)
(* ---------------------------------------------------------------------- *)
MediaKinds == {"audio", "video"}

\* the bits a stats result adds to the send and to the receive samples
BitsSent(r, k) == IF r.err THEN 0 ELSE r.stats[k].sending * 8
BitsReceived(r, k) == IF r.err THEN 0 ELSE r.stats[k].receiving * 8

\* t is the value (num / den) * pct / 100 bits per second in whole kbps
InKbps(t, num, den, pct) ==
  /\ t * den * 100 * 1000 <= num * pct
  /\ num * pct < (t + 1) * den * 100 * 1000

\* C24: the stats result that brings the window of a peer to the configured
\* interval count issues exactly one refreshConnection for that peer and
\* leaves the window empty; in upload-only mode its audio and its video
\* target are, each on its own, the average of the send samples times
\* limitAtPercentage / 100, in whole kbps. A result that leaves the window
\* shorter issues none.
C24_OneUpdateWhenWindowFull ==
  [][\A e \in Endpoints : \A r \in RetrieveOutcomes :
       (PullResult(e, r) /\ last'.outcome # "cleared") =>
         LET adj == setup.bandwidthAdjuster
             w == bandwidth[1]
         IN IF Len(w.video.send) + 1 = adj.interval
            THEN /\ Len(refreshConnectionCalls') = 1
                 /\ refreshConnectionCalls'[1].peerId = e
                 /\ bandwidth' = <<EmptyWindow>>
                 /\ adj.useUploadBwOnly =>
                      \A k \in MediaKinds :
                        InKbps(refreshConnectionCalls'[1][k],
                               SumOf(w[k].send) + BitsSent(r, k),
                               adj.interval, adj.limitAtPercentage)
            ELSE refreshConnectionCalls' = <<>>]_allVars

\* five send samples of 100 kbps at 50 percent, upload only: one update
\* with the video target 50, and an empty window
C24_Witness ==
  /\ setup.bandwidthAdjuster
       = [interval |-> 5, limitAtPercentage |-> 50, useUploadBwOnly |-> TRUE]
  /\ last = Ran("retrieveStats", "A", "refreshed")
  /\ refreshConnectionCalls = << [peerId |-> "A", audio |-> 10, video |-> 50] >>
  /\ bandwidth = <<EmptyWindow>>

\* C25: in every reachable state each sample list of the window is at most
\* as long as the configured interval count, and a state reached by the step
\* that issued the adjustment holds the empty window.
C25_WindowBoundedAndCleared ==
  /\ bandwidth # <<>> =>
       \A k \in MediaKinds :
         /\ Len(bandwidth[1][k].send) <= setup.bandwidthAdjuster.interval
         /\ Len(bandwidth[1][k].recv) <= setup.bandwidthAdjuster.interval
  /\ refreshConnectionCalls # <<>> => bandwidth = <<EmptyWindow>>

\* the window one sample short of its length, and the window just emptied
C25_Witness ==
  /\ bandwidth # <<>>
  /\ Len(bandwidth[1].video.send) = setup.bandwidthAdjuster.interval - 1
  /\ Len(bandwidth[1].video.send) > 1
  /\ last.outcome = "pushed"

\* C26: a stats result of a live peer, failed or not, adds exactly one
\* sample to each list of the window, a failed one the sample 0, and counts
\* as one interval; a failed result triggers no event.
C26_FailedPullPushesZero ==
  [][\A e \in Endpoints : \A r \in RetrieveOutcomes :
       (PullResult(e, r) /\ last'.outcome # "cleared") =>
         LET adj == setup.bandwidthAdjuster
             w == bandwidth[1]
         IN /\ currentBlock'[e] = (currentBlock[e] + 1) % adj.interval
            /\ IF Len(w.video.send) + 1 = adj.interval
               THEN /\ bandwidth' = <<EmptyWindow>>
                    /\ Len(refreshConnectionCalls') = 1
                    /\ (r.err /\ adj.useUploadBwOnly) =>
                         \A k \in MediaKinds :
                           InKbps(refreshConnectionCalls'[1][k],
                                  SumOf(w[k].send), adj.interval,
                                  adj.limitAtPercentage)
               ELSE \A k \in MediaKinds :
                      /\ bandwidth'[1][k].send
                           = Append(w[k].send, BitsSent(r, k))
                      /\ bandwidth'[1][k].recv
                           = Append(w[k].recv, BitsReceived(r, k))
            /\ r.err => (triggered' = <<>> /\ dispatched' = <<>>)]_allVars

\* after a sample of a successful pull, a failed pull pushed its zeros
C26_Witness ==
  /\ last = Ran("retrieveStats", "A", "pushed")
  /\ bandwidth # <<>>
  /\ bandwidth[1].video.send = <<100000, 0>>
  /\ bandwidth[1].video.recv = <<200000, 0>>
  /\ bandwidth[1].audio.send = <<20200, 0>>
  /\ bandwidth[1].audio.recv = <<0, 0>>

\* C27: a step starts a bandwidth adjuster for a peer only in a session
\* without MCU, with bandwidth adjustment configured and with a remote agent
\* that is known and is not edge, and only while handling a signal whose
\* canonical state is CONNECTED or COMPLETED.
C27_AdjusterStartsOnlyWhenEligible ==
  [][\A e \in Monitored :
       (adjustmentCalls'[e] > adjustmentCalls[e]
          \/ pullIntervals'[e] > pullIntervals[e]) =>
         /\ ~setup.hasMCU
         /\ setup.bandwidthAdjuster # NoAdjuster
         /\ setup.agent \notin {"edge", ""}
         /\ CanonicalState(e)' \in {CONNECTED, COMPLETED}]_allVars

\* oniceconnectionstatechange started an adjuster on COMPLETED
C27_Witness ==
  /\ last = Ran(OnIceHandler, "A", "dispatched")
  /\ adjustmentCalls["A"] = 1
  /\ CanonicalState("A") = COMPLETED
  /\ ~setup.hasMCU
  /\ setup.agent = "chrome"

\* C28: the targets of an update are, for audio and video each, the
\* percentage of the mean of the send average and the receive average of
\* the window when the adjuster is not upload-only, and the percentage of
\* the send average alone when it is.
C28_SendAndReceiveAveraged ==
  [][\A e \in Endpoints : \A r \in RetrieveOutcomes :
       (PullResult(e, r) /\ last'.outcome = "refreshed") =>
         LET adj == setup.bandwidthAdjuster
             w == bandwidth[1]
         IN \A k \in MediaKinds :
              LET sent == SumOf(w[k].send) + BitsSent(r, k)
                  received == SumOf(w[k].recv) + BitsReceived(r, k)
              IN IF adj.useUploadBwOnly
                 THEN InKbps(refreshConnectionCalls'[1][k], sent,
                             adj.interval, adj.limitAtPercentage)
                 ELSE InKbps(refreshConnectionCalls'[1][k], sent + received,
                             2 * adj.interval, adj.limitAtPercentage)]_allVars

\* five samples sent at 100 kbps and received at 200 kbps, not upload-only:
\* the video target is half of 150 kbps
C28_Witness ==
  /\ ~setup.bandwidthAdjuster.useUploadBwOnly
  /\ last = Ran("retrieveStats", "A", "refreshed")
  /\ refreshConnectionCalls = << [peerId |-> "A", audio |-> 5, video |-> 75] >>

\* C30 as stated: each of two eligible peers connected together has its own
\* adjuster: while a peer is connected and its connection is alive, its
\* adjustment cycle runs.
C30_EachPeerHasItsAdjuster ==
  \A e \in Endpoints :
    (connected[e] /\ Alive(e)) => pullIntervals[e] > 0

(* ---------------------------------------------------------------------- *)
(* Properties of the selected candidate pair parser                        *)
(* ---------------------------------------------------------------------- *)
\* the selected candidate pair of a stored report, as <<>> or <<entry>>
SelectedPair(store) ==
  IF store = <<>> \/ TransportStats(store[1]) = <<>> THEN <<>>
  ELSE LET key == TransportStats(store[1])[1].selectedCandidatePairId
           hit == Lookup(store[1], key)
       IN IF hit # <<>> /\ hit[1].type = "candidate-pair" THEN hit ELSE <<>>

\* the earlier sample S1 of the pair that the later report selects
EarlierSample == IF SelectedPair(stored) = <<>> THEN <<>>
                 ELSE PrevStats(before, SelectedPair(stored)[1].id)

\* C19 as stated: for the samples S1 (earlier) and S2 (later) of the selected
\* candidate pair and each of the six counters, the reported interval value
\* is S2[C] - S1[C] when S2[C] >= S1[C], and S2[C] when there is no earlier
\* sample.
C19_DeltaOfSelectedPair ==
  SelectedPair(stored) # <<>> =>
    \A c \in Counters :
      LET s2 == SelectedPair(stored)[1].counters[c]
      IN IF EarlierSample = <<>>
         THEN selectedCandidatePair.delta[c] = s2
         ELSE s2 >= EarlierSample[1].counters[c]
              => selectedCandidatePair.delta[c] = s2 - EarlierSample[1].counters[c]

C21_ComparedWithSamePair ==
  SelectedPair(stored) # <<>> =>
    \A c \in Counters :
      selectedCandidatePair.delta[c]
        = TabulateStats(EarlierSample, SelectedPair(stored)[1], c)

\* the label holds 'host' somewhere
ContainsHost(t) ==
  \E i \in 1..Len(t) : \E j \in i..Len(t) : SubSeq(t, i, j) = Host

\* the mapping of candidate types as the specification states it
MappedType(t) ==
  CASE t = Relay -> Relayed
    [] t # Relay /\ ContainsHost(t) -> LocalType
    [] t = Srflx -> ServerReflexive
    [] OTHER -> t

\* the candidate entry of the stored report with the given id
StoredCandidate(id) == Lookup(stored[1], id)[1]

\* C22: the candidate type reported for the local and for the remote
\* candidate of the selected pair is the mapping of the entry's label:
\* 'relay' gives 'relayed', a label containing 'host' gives 'local', 'srflx'
\* gives 'serverreflexive', every other label is returned unchanged.
C22_CandidateTypeMapping ==
  (stored # <<>> /\ selectedCandidatePair.local.id = "L1"
                 /\ selectedCandidatePair.remote.id = "R1") =>
     /\ selectedCandidatePair.local.candidateType
          = MappedType(StoredCandidate("L1").candidateType)
     /\ selectedCandidatePair.remote.candidateType
          = MappedType(StoredCandidate("R1").candidateType)

\* a label that only contains 'host' was mapped to 'local' while the other
\* candidate, of a type outside the three mapped ones, kept its label
C22_Witness ==
  /\ stored # <<>>
  /\ selectedCandidatePair.local.id = "L1"
  /\ StoredCandidate("L1").candidateType = <<"h">> \o Host \o <<"-", "t", "c", "p">>
  /\ selectedCandidatePair.local.candidateType = LocalType
  /\ StoredCandidate("R1").candidateType = Prflx
  /\ selectedCandidatePair.remote.candidateType = Prflx

\* an output filled by an earlier report that selected a pair
FilledPair == ParseAll(BlankPair, ReportWith(Host, Relay), <<>>, 1)

\* C23: when the report holds no transport entry, or no candidate pair with
\* the id the transport selects, the parser leaves every attribute of
\* selectedCandidatePair as it was, for each entry it is called with and
\* whatever the output held, so the output of the retrieval is still blank.
C23_NoSelectionLeavesOutput ==
  (stored # <<>> /\ SelectedPair(stored) = <<>>) =>
     /\ selectedCandidatePair = BlankPair
     /\ \A p \in 1..Len(stored[1]) : \A out \in {BlankPair, FilledPair} :
          ParseSelectedCandidatePair(out, stored[1], before, p) = out

\* after a report that selected a pair, a report whose transport selects a
\* pair it does not hold was parsed
C23_Witness ==
  /\ stored # <<>>
  /\ SelectedPair(before) # <<>>
  /\ TransportStats(stored[1]) # <<>>
  /\ SelectedPair(stored) = <<>>
  /\ selectedCandidatePair = BlankPair

(* ---------------------------------------------------------------------- *)
(* Properties of the renegotiation advisor                                 *)
(* ---------------------------------------------------------------------- *)
\* the senders that transmit: those whose stats carry an ssrc
TransmittingSet(reports) == { s \in DOMAIN reports : reports[s] # {} }

\* the recorded senders, as a set
RecordedSet(savedSenders) ==
  { savedSenders[i] : i \in 1..Len(savedSenders) }

\* C29 as stated: renegotiateIfNeeded resolves with true iff the set of
\* transmitting senders differs from the set of recorded senders, and with
\* false when both hold the same senders.
C29_NeededIffSenderSetsDiffer ==
  renegotiation.phase = "resolved" =>
    (renegotiation.isRenegoNeeded
       <=> TransmittingSet(renegotiation.reports)
             # RecordedSet(renegotiation.savedSenders))

\* C39 as stated: once the getStats promises of the senders have settled,
\* the promise renegotiateIfNeeded returned is resolved or rejected.
C39_PromiseSettles ==
  (renegotiation.phase = "pending")
    ~> (renegotiation.phase \in {"resolved", "rejected"})

(* ---------------------------------------------------------------------- *)
(* Properties of the room operations                                       *)
(* ---------------------------------------------------------------------- *)
\* the peers with an entry in either map
KnownPeers == peerInformations \cup knownConnections

\* the leaveRoom call of the user, whatever its callback
UserLeaves(cb) == cb \in {"user", "none"} /\ LeaveRoom(cb)

\* C31: a leaveRoom call of a user who is not in a room hands an error to
\* its callback and triggers no 'peerLeft' for the user, in the call or
\* after it; it still asks an open channel to close, calls _removePeer for
\* every known peer, and _inRoom is false afterwards.
C31_LeaveWhenNotInRoomAborts ==
  [][\A cb \in {"user", "none"} :
       (UserLeaves(cb) /\ ~inRoom) =>
         /\ emitted' = (IF cb = "user" THEN <<"leaveRoom error">> ELSE <<>>)
         /\ UNCHANGED leaveWaits
         /\ channelOpen => channelClosing'
         /\ \A p \in KnownPeers : removals'[p] >= 1
         /\ KnownPeers' = {}
         /\ ~inRoom']_allVars

C31_Witness ==
  /\ roomLast = RoomRan("leaveRoom", "notInRoom")
  /\ emitted = <<"leaveRoom error">>
  /\ channelClosing
  /\ \A p \in RoomPeers : removals[p] = 1

\* the step hands JOIN_ROOM to the channel
SendsJoinRoom == \E k \in 1..Len(emitted') : emitted'[k] = "JOIN_ROOM"

\* C32: a valid joinRoom call of a user who is in a room runs leaveRoom with
\* joinRoomFn as the continuation of its callback and sends nothing; the join
\* starts in the step in which that callback fires, after 'peerLeft' and with
\* the channel closed, whatever the callback is handed; and JOIN_ROOM is sent
\* only when the user is in no room and no such leaveRoom is outstanding.
C32_JoinLeavesFirst ==
  [][/\ \A options \in [manualGetUserMedia : BOOLEAN, media : BOOLEAN] :
          (JoinRoom(TRUE, TRUE, options) /\ inRoom) =>
            /\ joinPhase' = "leaving"
            /\ leaveWaits' = Append(leaveWaits, "join")
            /\ emitted' = <<>>
     /\ (joinPhase = "leaving" /\ joinPhase' # "leaving") =>
            /\ joinPhase' = "initRoom"
            /\ emitted' = <<"peerLeft", "leaveRoom success">>
            /\ ~channelOpen /\ ~inRoom
     /\ SendsJoinRoom =>
            /\ ~inRoom
            /\ \A i \in 1..Len(leaveWaits) : leaveWaits[i] # "join"]_allVars

C32_Witness ==
  /\ roomLast = RoomRan("leaveWait", "join")
  /\ joinPhase = "initRoom"
  /\ emitted = <<"peerLeft", "leaveRoom success">>

\* C33: once the 600 polls for the stream have passed without one, the
\* callback of joinRoom has been invoked, once and with an error.
C33_TimeoutInvokesCallback ==
  joinPhase = "timedOut" => joinCallbacks = <<"error">>

\* C38: a leaveRoom call of a user who is in a room calls _removePeer once
\* for every peer with an entry in either map and for no other, and reports
\* nothing before its _wait fires; 'peerLeft' of the user is triggered once
\* per such call, followed by the one success callback, with the channel
\* closed and no peer left in the maps.
C38_LeaveRemovesOnceThenReports ==
  [][/\ (inRoom /\ ~inRoom') =>
          /\ \A p \in RoomPeers :
               removals'[p] = (IF p \in KnownPeers THEN 1 ELSE 0)
          /\ Len(leaveWaits') = Len(leaveWaits) + 1
          /\ emitted' = <<>>
     /\ \A i \in 1..Len(leaveWaits) :
          LeaveWaitDone(i) =>
            /\ ~channelOpen
            /\ KnownPeers = {}
            /\ emitted' = <<"peerLeft">> \o
                 (IF leaveWaits[i] = "none" THEN <<>>
                  ELSE <<"leaveRoom success">>)
            /\ Len(leaveWaits') = Len(leaveWaits) - 1
     /\ (\E k \in 1..Len(emitted') : emitted'[k] \in {"peerLeft", "leaveRoom success"})
          => \E i \in 1..Len(leaveWaits) : LeaveWaitDone(i)]_allVars

C38_Witness ==
  /\ roomLast = RoomRan("leaveWait", "user")
  /\ emitted = <<"peerLeft", "leaveRoom success">>
  /\ ~channelOpen

(* ---------------------------------------------------------------------- *)
(* Properties of the rewrite chain                                         *)
(* ---------------------------------------------------------------------- *)
\* the six stages of the chain in their order, the last one only when
\* bundling is disabled
SixStages ==
  <<"_removeSDPFirefoxH264Pref", "_setSDPCodecParams",
    "_removeSDPUnknownAptRtx", "_removeSDPREMBPackets", "_setSCTPport">>
  \o (IF disableBundle THEN <<BundleStrip>> ELSE <<>>)

IsStage(name) == \E k \in 1..Len(SixStages) : SixStages[k] = name

IsNoStage(name) == ~IsStage(name)

\* the body an accepted created description leaves the chain with
Rewritten == IF disableBundle THEN <<MediaLine>> ELSE <<BundleLine, MediaLine>>

\* C34 as stated: the rewrites of an accepted local description are the six
\* stages in their order and nothing else.
C34_OnlyTheSixStages ==
  last.outcome = "accepted" => last.rewrites = SixStages

\* C34: the rewrites of an accepted local description contain the six
\* stages in their fixed order, the BUNDLE replace only when bundling is
\* disabled; the two other rewrites of the chain, _removeSDPCodecs and
\* _handleSDPConnectionSettings, run between the third and the fourth stage;
\* the description that leaves the chain is the output of its last stage.
C34_SixStagesInOrder ==
  last.outcome = "accepted" =>
    /\ SelectSeq(last.rewrites, IsStage) = SixStages
    /\ SelectSeq(last.rewrites, IsNoStage)
         = <<"_removeSDPCodecs", "_handleSDPConnectionSettings">>
    /\ last.rewrites[3] = "_removeSDPUnknownAptRtx"
    /\ last.rewrites[6] = "_removeSDPREMBPackets"
    /\ last.fn = "setLocalOffer"
         => bufferedLocalOffer[last.ep].sdp = Rewritten
    /\ last.fn = "setLocalAnswer"
         => \E i \in 1..Len(pending[last.ep]) :
              /\ pending[last.ep][i].op = "setLocalDescription"
              /\ pending[last.ep][i].sd.sdp = Rewritten

C34_Witness ==
  /\ last.outcome = "accepted"
  /\ disableBundle
  /\ last.fn = "setLocalAnswer"
  /\ Len(last.rewrites) = 8

(* ---------------------------------------------------------------------- *)
(* Properties of the normalization and of the adjuster start               *)
(* ---------------------------------------------------------------------- *)
\* a handler processed a signal of e in the step taken and emitted at once
Emitted(e) ==
  /\ last.fn \in {OnIceHandler, OnStateHandler}
  /\ last.ep = e
  /\ last.outcome = "dispatched"

\* the quirks of edge: 'connecting' is CHECKING, 'new' is FAILED
EdgeQuirks(raw) ==
  IF setup.browser = "edge" /\ raw = CONNECTING THEN CHECKING
  ELSE IF setup.browser = "edge" /\ raw = ICE_NEW THEN FAILED
  ELSE raw

\* C35 as stated: the state a handler emits for a raw signal is CHECKING for
\* 'connecting' and FAILED (followed by TRICKLE_FAILED) for 'new' on edge,
\* and the raw state in every other case.
C35_OnlyEdgeNormalizes ==
  \A e \in Monitored :
    Emitted(e) =>
      /\ dispatched[1] = Event(e, EdgeQuirks(iceConnectionState[e]))
      /\ (setup.browser = "edge" /\ iceConnectionState[e] = ICE_NEW)
           => dispatched = <<Event(e, FAILED), Event(e, TRICKLE_FAILED)>>

\* C35: oniceconnectionstatechange emits CHECKING for a raw 'connecting' and
\* FAILED followed by TRICKLE_FAILED for a raw 'new' on edge, and the raw
\* state in every other case; transport.onstatechange of Chrome 75 emits
\* CHECKING for a raw 'connecting' and the raw state otherwise; a delayed
\* emission is CLOSED.
C35_NormalizedPerHandler ==
  /\ \A e \in Monitored :
       Emitted(e) =>
         /\ dispatched[1] =
              Event(e, IF last.fn = OnStateHandler
                          /\ iceConnectionState[e] = CONNECTING
                       THEN CHECKING
                       ELSE EdgeQuirks(iceConnectionState[e]))
         /\ (setup.browser = "edge" /\ iceConnectionState[e] = ICE_NEW)
              => dispatched = <<Event(e, FAILED), Event(e, TRICKLE_FAILED)>>
  /\ last.fn = "setTimeout" =>
       \A i \in 1..Len(dispatched) : dispatched[i].state = CLOSED

C35_Witness ==
  /\ Emitted("A")
  /\ setup.browser = "edge"
  /\ iceConnectionState["A"] = ICE_NEW
  /\ dispatched = <<Event("A", FAILED), Event("A", TRICKLE_FAILED)>>

\* C37 as stated: no peer has a second bandwidth adjuster started.
C37_OneAdjusterPerPeer ==
  \A e \in Monitored : adjustmentCalls[e] <= 1

(* ---------------------------------------------------------------------- *)
(* Properties of the release of processingLocalSDP                         *)
(* ---------------------------------------------------------------------- *)
\* C36: when _setLocalAndSendMessage or its onSuccessCbFn hands a
\* description to the channel, processingLocalSDP is false afterwards for an
\* answer and true for an offer; when the sending is halted because ICE
\* trickle is disabled and gathering is not complete, the flag is true
\* afterwards; and while the flag is true a created description that
\* arrives for the peer changes nothing but the outstanding call it
\* completes.
C36_MutexReleasedByAnswerOnly ==
  [][\A e \in Endpoints : \A i \in Calls(e) :
       /\ (CreateOfferSuccess(e, i) \/ CreateAnswerSuccess(e, i)
             \/ SetLocalSuccess(e, i)) =>
            /\ Transmits(e) =>
                 processingLocalSDP'[e] = (Transmitted(e).type = OFFER)
            /\ haltedSend'[e] # haltedSend[e] =>
                 /\ ~enableIceTrickle /\ ~gathered[e]
                 /\ ~Transmits(e)
                 /\ processingLocalSDP'[e]
       /\ (processingLocalSDP[e]
             /\ (CreateOfferSuccess(e, i) \/ CreateAnswerSuccess(e, i))) =>
            UNCHANGED <<processingLocalSDP, haltedSend, channel,
                        bufferedLocalOffer, localDescription>>]_vars

C36_Witness ==
  /\ ~enableIceTrickle
  /\ last.fn = "setLocalSuccess"
  /\ haltedSend[last.ep].type = ANSWER
  /\ processingLocalSDP[last.ep]

(* ---------------------------------------------------------------------- *)
(* Properties of the endpoint attributes of the selected pair              *)
(* ---------------------------------------------------------------------- *)
\* the entry of the stored report the selected pair names as its local or
\* remote candidate, when it is a candidate entry of that side
SelectedCandidate(type, id) ==
  { FromCandidate(entry) :
      entry \in { stored[1][p] : p \in { q \in 1..Len(stored[1]) :
                                          /\ stored[1][q].type = type
                                          /\ stored[1][q].id = id } } }

\* an output whose endpoints an earlier report filled
FilledEndpoints ==
  [BlankPair EXCEPT
     !.local = FromCandidate(CandidateEntry("L2", "local-candidate", Relay)),
     !.remote = FromCandidate(CandidateEntry("R2", "remote-candidate", Prflx))]

\* C40: the local endpoint attributes of the output are blank or those of
\* the local-candidate entry whose id is the localCandidateId of the selected
\* pair, the remote ones blank or those of the remote-candidate entry whose
\* id is its remoteCandidateId; and a call of the parser for an entry of
\* another type, or for a candidate the selected pair does not name, leaves
\* the endpoint attributes of any output as they were.
C40_EndpointsFromSelectedCandidates ==
  stored # <<>> =>
    LET pair == SelectedPair(stored)
        localId == IF pair = <<>> THEN "" ELSE pair[1].localCandidateId
        remoteId == IF pair = <<>> THEN "" ELSE pair[1].remoteCandidateId
    IN /\ selectedCandidatePair.local \in
            {BlankCandidate} \cup SelectedCandidate("local-candidate", localId)
       /\ selectedCandidatePair.remote \in
            {BlankCandidate} \cup SelectedCandidate("remote-candidate", remoteId)
       /\ \A p \in 1..Len(stored[1]) : \A out \in {BlankPair, FilledEndpoints} :
            LET entry == stored[1][p]
                parsed == ParseSelectedCandidatePair(out, stored[1], before, p)
            IN /\ ~(entry.type = "local-candidate" /\ entry.id = localId)
                    => parsed.local = out.local
               /\ ~(entry.type = "remote-candidate" /\ entry.id = remoteId)
                    => parsed.remote = out.remote

\* the report holds candidates of both pairs and the output carries those
\* of the selected one
C40_Witness ==
  /\ stored # <<>>
  /\ SelectedPair(stored) # <<>>
  /\ SelectedPair(stored)[1].id = "P2"
  /\ \E p \in 1..Len(stored[1]) : stored[1][p].id = "L1"
  /\ \E p \in 1..Len(stored[1]) : stored[1][p].id = "R2"
  /\ selectedCandidatePair.local = BlankCandidate
  /\ selectedCandidatePair.remote
       = FromCandidate(CandidateEntry("R2", "remote-candidate", Prflx))

====
